---- MODULE Spec2Model ----
(***************************************************************************)
(* StreamLens schema indexer: the state store (file-based SchemaRepository *)
(* and relational SupabaseSchemaRepository behind UnifiedSchemaRepository),*)
(* HistoricalScanner, the orchestrator's periodic catch-up scans,          *)
(* RealtimeMonitor.processEvent, RateLimiter and retryWithBackoff.         *)
(*                                                                         *)
(* The module holds several specifications over one set of variables; each *)
(* specification drives one part of the program and leaves the variables   *)
(* of the other parts at their initial values.                             *)
(***************************************************************************)
EXTENDS Integers, Sequences, FiniteSets, TLC

VARIABLES
  \* ---- store ----
  useSupabase,   \* UnifiedSchemaRepository.useSupabase
  schemas,       \* SchemaRepository.schemas (Map schemaId -> IndexedSchema)
  state,         \* SchemaRepository.state (IndexerState in memory)
  stateFile,     \* data/state.json as last written by saveState
  dbSchemas,     \* table indexed_schemas (schema_id -> row)
  dbState,       \* table indexer_state, row id = 1
  cachedState,   \* SupabaseSchemaRepository.cachedState: <<>> is null, <<s>> is s
  reported,      \* what getState() returned if called last: <<>> otherwise
  \* ---- configuration and chain ----
  config,        \* IndexerConfig: startBlock, batchSize
  chainHeight,   \* RemoteLedgerClient.currentHeight()
  \* ---- historical scans (one slot per scan() invocation in progress) ----
  scan,
  writes,        \* SupabaseSchemaRepository.updateState calls in flight
  process,       \* "running"; "crashed" after an unhandled promise rejection;
                 \* "exited" after process.exit(1)
  timerOn,       \* StreamLensIndexer.historicalScanInterval is set
  hist,          \* counts of scan() calls and failures, history of the scans
  \* ---- real-time monitor: processEvent invocations in flight ----
  monitor,
  \* ---- RateLimiter ----
  limiterCfg,    \* RateLimiter's constructor arguments
  running,       \* RateLimiter.running
  queue,         \* RateLimiter.queue: the callers whose resolve it holds
  lastCallTime,  \* RateLimiter.lastCallTime
  now,           \* Date.now()
  caller,        \* where each caller of execute() is in it,
  \* ---- retryWithBackoff ----
  retry,
  \* ---- IndexerEventEmitter and WebhookManager ----
  bus,           \* one emit*() call: the listeners and how far it got
  webhook,       \* one sendWebhook() call: config, attempt, requests made
  \* ---- RealtimeMonitor: connection life cycle and log handling ----
  session,       \* RealtimeMonitor's fields, the watchers and timers it made
  handlers,      \* handleLogs() invocations in progress
  \* ---- remote calls of scanner, monitor and enricher ----
  remote         \* per task of a component: the remote call it has in flight

storeVars == <<useSupabase, schemas, state, stateFile, dbSchemas, dbState,
               cachedState, reported>>
scanVars == <<config, chainHeight, scan, writes, process, timerOn, hist>>
limiterVars == <<limiterCfg, running, queue, lastCallTime, now, caller>>
busVars == <<bus, webhook>>
watchVars == <<session, handlers, remote>>
vars == <<storeVars, scanVars, monitor, limiterVars, retry, busVars, watchVars>>

(***************************************************************************)
(* Bounds of the model.                                                    *)
(***************************************************************************)
MaxIds == 2          \* record ids 1..MaxIds
MaxHeight == 3       \* chain heights 0..MaxHeight
MaxBatch == 2        \* batchSize in 1..MaxBatch
MaxStoreOps == 3     \* store calls in the store specification

Ids == 1..MaxIds
Heights == 0..MaxHeight

(***************************************************************************)
(* bigint <-> decimal string, as JSON.stringify's replacer / toString()    *)
(* write it and BigInt() reads it back.                                    *)
(***************************************************************************)
RECURSIVE toString(_)
toString(n) ==
  IF n < 10 THEN <<n>> ELSE toString(n \div 10) \o <<n % 10>>

RECURSIVE BigInt(_)
BigInt(s) ==
  IF Len(s) = 0 THEN 0
  ELSE 10 * BigInt(SubSeq(s, 1, Len(s) - 1)) + s[Len(s)]

(***************************************************************************)
(* Records.  An IndexedSchema is a function from the keys it carries to    *)
(* their values, so that object spread can be modelled key by key.         *)
(***************************************************************************)
\* the record HistoricalScanner.enrichAndSaveEvents and
\* RealtimeMonitor.processEvent build: empty name and definition
MinimalSchema(id, blockNumber) ==
  [schemaId |-> id, schemaName |-> "", schemaDefinition |-> "",
   blockNumber |-> blockNumber]

\* the record SchemaEnricher.enrichSchema returns: {...schema, schemaName,
\* schemaDefinition, parentSchemaId, metadata}
EnrichedSchema(schema, name, definition, parent) ==
  [k \in DOMAIN schema \cup {"schemaName", "schemaDefinition", "parentSchemaId"} |->
     CASE k = "schemaName" -> name
       [] k = "schemaDefinition" -> definition
       [] k = "parentSchemaId" -> parent
       [] OTHER -> schema[k]]

\* { ...old, ...new }
Spread(old, new) ==
  [k \in DOMAIN old \cup DOMAIN new |->
     IF k \in DOMAIN new THEN new[k] ELSE old[k]]

\* a Map that keeps only the entry set last
MapSet_onlyLast(m, k, v) == [x \in {k} |-> v]

\* Map.set(k, v)
MapSet(m, k, v) ==
  [x \in DOMAIN m \cup {k} |-> IF x = k THEN v ELSE m[x]]

EmptyMap == [x \in {} |-> 0]

\* the default IndexerState of loadState (START_BLOCK unset)
DefaultState == [lastScannedBlock |-> 0, totalSchemasIndexed |-> 0]

(***************************************************************************)
(* SchemaRepository (JSON files)                                           *)
(***************************************************************************)
\* saveSchema up to the file write: the new map and state
SchemaRepository_saveSchema(sch, st, schema) ==
  IF schema.schemaId \in DOMAIN sch
  THEN [schemas |-> MapSet(sch, schema.schemaId,
                           Spread(sch[schema.schemaId], schema)),
        state |-> st]
  ELSE [schemas |-> MapSet(sch, schema.schemaId, schema),
        state |-> [st EXCEPT !.totalSchemasIndexed = @ + 1]]

\* a mutant of IsNewSchema: every schema of a batch counts as new
IsNewSchema_always(sch, schemaId) == TRUE

\* !this.schemas.has(schema.schemaId)
IsNewSchema(sch, schemaId) == schemaId \notin DOMAIN sch

\* the for loop of saveSchemas: the map and newCount after the batch
RECURSIVE saveSchemasLoop(_, _, _)
saveSchemasLoop(sch, newCount, batch) ==
  IF batch = <<>> THEN [schemas |-> sch, newCount |-> newCount]
  ELSE LET s == Head(batch) IN
       saveSchemasLoop(MapSet(sch, s.schemaId, s),
                       IF IsNewSchema(sch, s.schemaId) THEN newCount + 1
                       ELSE newCount,
                       Tail(batch))

SchemaRepository_saveSchemas(sch, st, batch) ==
  LET r == saveSchemasLoop(sch, 0, batch) IN
  [schemas |-> r.schemas,
   state |-> [st EXCEPT !.totalSchemasIndexed = @ + r.newCount]]

\* an updateState that writes the default state with the updates in it
SchemaRepository_updateState_fromDefault(st, updates) ==
  Spread(DefaultState, updates)

\* updateState: this.state = {...this.state, ...updates}
SchemaRepository_updateState(st, updates) == Spread(st, updates)

\* saveState: the text written to state.json (bigint as a decimal string)
SerializeState(st) ==
  [lastScannedBlock |-> toString(st.lastScannedBlock),
   totalSchemasIndexed |-> st.totalSchemasIndexed]

\* loadState of the JSON repository: the reviver turns the string back
ParseState(file) ==
  [lastScannedBlock |-> BigInt(file.lastScannedBlock),
   totalSchemasIndexed |-> file.totalSchemasIndexed]

(***************************************************************************)
(* SupabaseSchemaRepository                                                *)
(***************************************************************************)
schemaToDb(schema) ==
  [schema_id |-> schema.schemaId,
   schema_name |-> schema.schemaName,
   schema_definition |-> schema.schemaDefinition,
   block_number |-> toString(schema.blockNumber),
   parent_schema_id |-> IF "parentSchemaId" \in DOMAIN schema
                        THEN schema.parentSchemaId ELSE 0]

dbToSchema(row) ==
  [schemaId |-> row.schema_id,
   schemaName |-> row.schema_name,
   schemaDefinition |-> row.schema_definition,
   blockNumber |-> BigInt(row.block_number),
   parentSchemaId |-> row.parent_schema_id]

\* .upsert(rows, {onConflict: "schema_id"}): insert, or replace the row's
\* columns by the ones given
RECURSIVE Upsert(_, _)
Upsert(table, rows) ==
  IF rows = <<>> THEN table
  ELSE Upsert(MapSet(table, Head(rows).schema_id, Head(rows)), Tail(rows))

SupabaseSchemaRepository_saveSchema(table, schema) ==
  Upsert(table, <<schemaToDb(schema)>>)

SupabaseSchemaRepository_saveSchemas(table, batch) ==
  Upsert(table, [i \in 1..Len(batch) |-> schemaToDb(batch[i])])

\* loadState: the row of indexer_state, or the default state on an error
SupabaseSchemaRepository_loadState(row, ok) ==
  IF ok THEN [lastScannedBlock |-> BigInt(row.last_scanned_block),
              totalSchemasIndexed |-> row.total_schemas_indexed]
  ELSE DefaultState

\* updateState: the columns sent to .update(dbUpdates)
dbUpdates(updates) ==
  [k \in {c \in {"last_scanned_block", "total_schemas_indexed"} :
            \/ c = "last_scanned_block" /\ "lastScannedBlock" \in DOMAIN updates
            \/ c = "total_schemas_indexed" /\ "totalSchemasIndexed" \in DOMAIN updates} |->
     IF k = "last_scanned_block" THEN toString(updates.lastScannedBlock)
     ELSE updates.totalSchemasIndexed]

EmptyDbState == [last_scanned_block |-> toString(0), total_schemas_indexed |-> 0]

(***************************************************************************)
(* What the store holds, whichever backend is in use.                      *)
(***************************************************************************)
StoredIds == IF useSupabase THEN DOMAIN dbSchemas ELSE DOMAIN schemas

\* getSchema(id) for a stored id
StoredSchema(id) == IF useSupabase THEN dbToSchema(dbSchemas[id]) ELSE schemas[id]

\* the checkpoint that survives a restart
PersistedHeight ==
  IF useSupabase THEN BigInt(dbState.last_scanned_block)
  ELSE BigInt(stateFile.lastScannedBlock)

(***************************************************************************)
(* UnifiedSchemaRepository: each call goes to the backend chosen at        *)
(* construction.  ok = FALSE is a storage error: the JSON repository has   *)
(* already changed its in-memory map and counter when saveSchemasToFile    *)
(* throws; a Supabase error leaves the table and the cache untouched.      *)
(***************************************************************************)
UnifiedSchemaRepository_saveSchema(schema, ok) ==
  IF useSupabase
  THEN /\ dbSchemas' = IF ok THEN SupabaseSchemaRepository_saveSchema(dbSchemas, schema)
                       ELSE dbSchemas
       /\ cachedState' = IF ok THEN <<>> ELSE cachedState
       /\ UNCHANGED <<schemas, state>>
  ELSE LET r == SchemaRepository_saveSchema(schemas, state, schema) IN
       /\ schemas' = r.schemas
       /\ state' = r.state
       /\ UNCHANGED <<dbSchemas, cachedState>>

UnifiedSchemaRepository_saveSchemas(batch, ok) ==
  IF useSupabase
  THEN /\ dbSchemas' = IF ok /\ batch # <<>>
                       THEN SupabaseSchemaRepository_saveSchemas(dbSchemas, batch)
                       ELSE dbSchemas
       /\ cachedState' = IF ok /\ batch # <<>> THEN <<>> ELSE cachedState
       /\ UNCHANGED <<schemas, state>>
  ELSE LET r == SchemaRepository_saveSchemas(schemas, state, batch) IN
       /\ schemas' = r.schemas
       /\ state' = r.state
       /\ UNCHANGED <<dbSchemas, cachedState>>

\* SupabaseSchemaRepository.getState: loads when the cache is null
SupabaseSchemaRepository_getState(cached, row, ok) ==
  IF cached # <<>> THEN cached[1]
  ELSE SupabaseSchemaRepository_loadState(row, ok)

\* getState(): the state returned; the Supabase cache is filled by a load
UnifiedSchemaRepository_getState(ok) ==
  IF useSupabase
  THEN LET s == SupabaseSchemaRepository_getState(cachedState, dbState, ok) IN
       /\ cachedState' = <<s>>
       /\ reported' = <<s>>
  ELSE /\ reported' = <<state>>
       /\ UNCHANGED cachedState

\* SupabaseSchemaRepository.updateState up to the database request: the
\* cache after the merge (loading first when it is null)
UpdateStateMerge(cached, row, updates, okLoad) ==
  Spread(SupabaseSchemaRepository_getState(cached, row, okLoad), updates)

\* .update(dbUpdates).eq("id", 1) applied by the database
ApplyDbUpdate(row, upd) == Spread(row, upd)

\* updateState(updates) run to completion by a caller that awaits it
UnifiedSchemaRepository_updateState(updates, okLoad, ok) ==
  IF useSupabase
  THEN /\ cachedState' = <<UpdateStateMerge(cachedState, dbState, updates, okLoad)>>
       /\ dbState' = IF ok THEN ApplyDbUpdate(dbState, dbUpdates(updates)) ELSE dbState
       /\ UNCHANGED <<state, stateFile>>
  ELSE /\ state' = SchemaRepository_updateState(state, updates)
       /\ stateFile' = IF ok THEN SerializeState(state') ELSE stateFile
       /\ UNCHANGED <<cachedState, dbState>>

(***************************************************************************)
(* Values of the parts a specification does not drive.                     *)
(***************************************************************************)
StoreEmpty ==
  /\ schemas = EmptyMap
  /\ state = DefaultState
  /\ stateFile = SerializeState(DefaultState)
  /\ dbSchemas = EmptyMap
  /\ dbState = EmptyDbState
  /\ reported = <<>>

ScanIdle ==
  /\ config = <<>>
  /\ chainHeight = 0
  /\ scan = <<>>
  /\ writes = {}
  /\ process = "running"
  /\ timerOn = FALSE

MonitorIdle == monitor = <<>>

LimiterIdle ==
  /\ limiterCfg = <<>>
  /\ running = 0
  /\ queue = <<>>
  /\ lastCallTime = 0
  /\ now = 0
  /\ caller = <<>>

RetryIdle == retry = <<>>

BusIdle == bus = <<>> /\ webhook = <<>>

WatchIdle == session = <<>> /\ handlers = <<>> /\ remote = <<>>

(***************************************************************************)
(* SpecStore: callers that await each store call, on either backend,       *)
(* starting from an empty store after initialize().                        *)
(***************************************************************************)
MaxBatchLen == 2     \* length of a saveSchemas batch

BlockNumbers == {1, 2}

SchemaInputs ==
  LET minimal == {MinimalSchema(id, b) : id \in Ids, b \in BlockNumbers} IN
  minimal \cup
  {EnrichedSchema(m, "N", d, p) : m \in minimal, d \in {"", "D"}, p \in {0, 1}}

\* saveSchemas has one caller, HistoricalScanner.enrichAndSaveEvents, which
\* passes the minimal records of a window
BatchInputs ==
  UNION {[1..n -> {MinimalSchema(id, b) : id \in Ids, b \in BlockNumbers}] :
           n \in 1..MaxBatchLen}

StoreInit ==
  /\ useSupabase \in BOOLEAN
  /\ StoreEmpty
  /\ cachedState = IF useSupabase THEN <<DefaultState>> ELSE <<>>
  /\ hist = [ops |-> 0, enriched |-> {}, checkpoints |-> 0]
  /\ ScanIdle /\ MonitorIdle /\ LimiterIdle /\ RetryIdle /\ BusIdle /\ WatchIdle

StoreStep ==
  /\ hist.ops < MaxStoreOps
  /\ hist' = [hist EXCEPT !.ops = @ + 1]
  /\ UNCHANGED <<useSupabase, config, chainHeight, scan, writes, process,
                 timerOn, monitor, limiterVars, retry, busVars, watchVars>>

Store_saveSchema ==
  \E schema \in SchemaInputs, ok \in BOOLEAN :
    /\ StoreStep
    /\ UnifiedSchemaRepository_saveSchema(schema, ok)
    /\ reported' = <<>>
    /\ UNCHANGED <<stateFile, dbState>>

Store_saveSchemas ==
  \E batch \in BatchInputs, ok \in BOOLEAN :
    /\ StoreStep
    /\ UnifiedSchemaRepository_saveSchemas(batch, ok)
    /\ reported' = <<>>
    /\ UNCHANGED <<stateFile, dbState>>

\* hist.checkpoints counts the updateState calls
Store_updateState ==
  \E h \in Heights, okLoad \in BOOLEAN, ok \in BOOLEAN :
    /\ hist.ops < MaxStoreOps
    /\ hist' = [hist EXCEPT !.ops = @ + 1, !.checkpoints = @ + 1]
    /\ UNCHANGED <<useSupabase, config, chainHeight, scan, writes, process,
                   timerOn, monitor, limiterVars, retry, busVars, watchVars>>
    /\ UnifiedSchemaRepository_updateState([lastScannedBlock |-> h], okLoad, ok)
    /\ reported' = <<>>
    /\ UNCHANGED <<schemas, dbSchemas>>

\* getState is a read: it does not count against MaxStoreOps
Store_getState ==
  \E ok \in BOOLEAN :
    /\ UnifiedSchemaRepository_getState(ok)
    /\ UNCHANGED <<useSupabase, schemas, state, stateFile, dbSchemas, dbState,
                   scanVars, monitor, limiterVars, retry,
                   busVars, watchVars>>

\* the all-zero hash the registry answers for a schema without a parent
ZeroHash == 0

\* enrichSchema(schema) with the answers of the registry: the fetch* helpers
\* catch their errors, so the name is never empty ("N" here), the
\* definition may be "" and the parent is the zero hash when it could not
\* be fetched; parentSchemaId is undefined (0) for the zero hash and what
\* the registry reported otherwise
SchemaEnricher_enrichSchema(schema, definition, parent) ==
  EnrichedSchema(schema, "N", definition,
                 IF parent # ZeroHash THEN parent ELSE 0)

\* one record of enrichAllSchemas, or the auto-enrichment listener for a
\* new record: enrichSchema, then saveSchema of what it returned.
\* hist.enriched keeps the ids enrichment has saved.
Store_enrich ==
  \E id \in StoredIds, definition \in {"", "D"}, parent \in {ZeroHash} \cup Ids,
     ok \in BOOLEAN :
    /\ hist.ops < MaxStoreOps
    /\ hist' = [hist EXCEPT !.ops = @ + 1, !.enriched = @ \cup {id}]
    /\ UnifiedSchemaRepository_saveSchema(
         SchemaEnricher_enrichSchema(StoredSchema(id), definition, parent), ok)
    /\ reported' = <<>>
    /\ UNCHANGED <<stateFile, dbState>>
    /\ UNCHANGED <<useSupabase, config, chainHeight, scan, writes, process,
                   timerOn, monitor, limiterVars, retry, busVars, watchVars>>

StoreNext ==
  \/ Store_enrich
  \/ Store_saveSchema
  \/ Store_saveSchemas
  \/ Store_updateState
  \/ Store_getState

SpecStore == StoreInit /\ [][StoreNext]_vars

(***************************************************************************)
(* HistoricalScanner.  scan() runs in a slot; every action is the stretch  *)
(* of code between two awaits.  The remote calls go through RateLimiter    *)
(* and retryWithBackoff, modelled on their own below: here a call either   *)
(* returns or has exhausted its retries (ok = FALSE).                      *)
(***************************************************************************)
MaxScans == 2        \* scan() invocations in progress at once
MaxCalls == 2        \* scan() invocations in one behaviour

Slots == 1..MaxScans
Omitted == -1        \* endBlock not passed (undefined)

\* the chain: the DataSchemaRegistered event of schema i is in block i
LogsIn(fromBlock, toBlock, height) ==
  {i \in Ids : fromBlock <= i /\ i <= toBlock /\ i <= height}

\* the ids of a set as the ascending list getLogs returns
RECURSIVE Ascending(_)
Ascending(S) ==
  IF S = {} THEN <<>>
  ELSE LET m == CHOOSE x \in S : \A y \in S : x <= y IN
       <<m>> \o Ascending(S \ {m})

IdleSlot ==
  [pc |-> "idle", call |-> 0, startBlock |-> 0, endBlock |-> Omitted,
   currentBlock |-> 0, fromBlock |-> 0, toBlock |-> 0, batch |-> <<>>,
   error |-> "", fetched |-> <<>>, issued |-> <<>>, saved |-> {},
   found |-> {}, skipped |-> {}]

\* endBlock || (await this.getCurrentBlock()): the await is reached only
\* when endBlock is falsy, which undefined and 0n both are
EndBlockIsFalsy(endBlock) == endBlock = Omitted \/ endBlock = 0

\* const toBlock = fromBlock + batchSize - 1n > currentBlock ? currentBlock : ...
WindowEnd(fromBlock, currentBlock, batchSize) ==
  IF fromBlock + batchSize - 1 > currentBlock THEN currentBlock
  ELSE fromBlock + batchSize - 1

\* while (fromBlock <= currentBlock): the next window, or the scan is complete
EnterLoop(sl) ==
  IF sl.fromBlock <= sl.currentBlock
  THEN [sl EXCEPT !.pc = "fetch",
                  !.toBlock = WindowEnd(sl.fromBlock, sl.currentBlock,
                                        config.batchSize)]
  ELSE [sl EXCEPT !.pc = "done"]

\* fromBlock = toBlock + 1n
NextFrom(toBlock) == toBlock + 1

MaxInFlight == 2     \* checkpoint requests awaiting the database's answer
MaxFaults == 1       \* failed remote calls and failed writes in one behaviour

\* 1 for a call that failed, 0 for one that did not
Fault(failed) == IF failed THEN 1 ELSE 0

\* k more faults are within the bound, and are counted
Charge(h, k) == [h EXCEPT !.faults = @ + k]

\* the tag of the checkpoint of the n-th window of scan() invocation call
Tag(sl) == [call |-> sl.call, n |-> Len(sl.fetched)]

\* tag t was issued before tag u
IssuedBefore(t, u) == t.call < u.call \/ (t.call = u.call /\ t.n < u.n)

\* the record of the checkpoint writes the backend has refused
Refused(h, tag) == [h EXCEPT !.failed = @ \cup {tag}]

\* this.repository.updateState({lastScannedBlock: toBlock, ...}), not awaited,
\* on a store whose cache and in-memory state are cachedNow and stateNow.
\*  JSON: state and state.json change at once; a failed write rejects a promise
\*  nobody holds, and the runtime either ends the process or only warns.
\*  Supabase: the cache is merged at once when it is loaded, else after a
\*  loadState; the database request is in flight.
updateState_notAwaited(cachedNow, stateNow, h, tag, updates, ok, survives) ==
  IF useSupabase
  THEN /\ Cardinality(writes) < MaxInFlight
       /\ cachedState' = IF cachedNow # <<>>
                         THEN <<Spread(cachedNow[1], updates)>> ELSE cachedNow
       /\ writes' = writes \cup
            {[tag |-> tag, updates |-> updates,
              stage |-> IF cachedNow # <<>> THEN "update" ELSE "load"]}
       /\ state' = stateNow
       /\ UNCHANGED <<stateFile, process>>
       /\ hist' = h
  ELSE /\ state' = SchemaRepository_updateState(stateNow, updates)
       /\ stateFile' = IF ok THEN SerializeState(state') ELSE stateFile
       /\ process' = IF ok \/ survives THEN "running" ELSE "crashed"
       /\ cachedState' = cachedNow
       /\ writes' = writes
       /\ hist' = IF ok THEN h ELSE Refused(h, tag)

\* the rest of the loop body once scanBatch has returned: the checkpoint,
\* fromBlock = toBlock + 1n and await this.sleep(500), which touches nothing
\* shared, then the while test and the next window's getLogs call
AfterBatch(sl) ==
  EnterLoop([sl EXCEPT !.issued = Append(@, sl.toBlock),
                       !.fromBlock = NextFrom(sl.toBlock),
                       !.batch = <<>>])

ScanFrame == UNCHANGED <<useSupabase, config, timerOn, monitor, limiterVars,
                         retry, busVars, watchVars,
                         reported>>

\* scan(startBlock, endBlock) up to its first await
StartScan(s, call, startBlock, endBlock) ==
  LET sl == [IdleSlot EXCEPT !.call = call, !.startBlock = startBlock,
                             !.endBlock = endBlock, !.fromBlock = startBlock]
  IN scan' = [scan EXCEPT ![s] =
                IF EndBlockIsFalsy(endBlock) THEN [sl EXCEPT !.pc = "height"]
                ELSE EnterLoop([sl EXCEPT !.currentBlock = endBlock])]

\* await this.getCurrentBlock() returns, or has exhausted its retries
Scan_getCurrentBlock(s) ==
  \E ok \in BOOLEAN :
    /\ process = "running"
    /\ scan[s].pc = "height"
    /\ hist.faults + Fault(~ok) <= MaxFaults
    /\ hist' = Charge(hist, Fault(~ok))
    /\ scan' = [scan EXCEPT ![s] =
                  IF ok THEN EnterLoop([@ EXCEPT !.currentBlock = chainHeight])
                  ELSE [@ EXCEPT !.pc = "rejected", !.error = "getBlockNumber"]]
    /\ UNCHANGED <<schemas, state, stateFile, dbSchemas, dbState, cachedState,
                   chainHeight, writes, process>>
    /\ ScanFrame

\* enrichAndSaveEvents without the try/catch around each event: the first
\* fetch that fails leaves the loop before anything is saved
SchemasPushed_noCatch(logs, fetchOk) == IF fetchOk = logs THEN logs ELSE {}

\* enrichAndSaveEvents: the events pushed to schemas are those whose
\* getBlock and getTransaction both returned; the catch inside the loop logs
\* the others and goes on
SchemasPushed(logs, fetchOk) == logs \cap fetchOk

\* scanBatch: getLogs returns the window's logs (or exhausts its retries) and
\* enrichAndSaveEvents fetches block and transaction of each event, dropping
\* the events whose fetch fails.  With nothing to save scanBatch returns and
\* the loop body goes on to the checkpoint.  found and skipped keep the
\* events getLogs returned and those whose fetch failed.
Scan_getLogs(s) ==
  \E ok \in BOOLEAN, wok \in BOOLEAN, survives \in BOOLEAN :
  \E fetchOk \in SUBSET LogsIn(scan[s].fromBlock, scan[s].toBlock, chainHeight) :
    LET logs == LogsIn(scan[s].fromBlock, scan[s].toBlock, chainHeight)
        enriched == SchemasPushed(logs, fetchOk)
        sl == [scan[s] EXCEPT !.fetched = Append(@, <<scan[s].fromBlock,
                                                     scan[s].toBlock>>),
                              !.found = IF ok THEN @ \cup logs ELSE @,
                              !.skipped = IF ok THEN @ \cup (logs \ fetchOk)
                                          ELSE @]
        k == Fault(~ok) + Fault(ok /\ fetchOk # logs) + Fault(~wok)
    IN
    /\ process = "running"
    /\ scan[s].pc = "fetch"
    /\ hist.faults + k <= MaxFaults
    /\ IF ~ok
       THEN /\ fetchOk = {} /\ wok /\ survives
            /\ scan' = [scan EXCEPT ![s] =
                          [sl EXCEPT !.pc = "rejected", !.error = "getLogs"]]
            /\ hist' = Charge(hist, k)
            /\ UNCHANGED <<state, stateFile, cachedState, writes, process>>
       ELSE IF enriched # {}
       THEN /\ wok /\ survives
            /\ hist' = Charge(hist, k)
            /\ scan' = [scan EXCEPT ![s] =
                          [sl EXCEPT !.pc = "save",
                             !.batch = [i \in 1..Cardinality(enriched) |->
                                MinimalSchema(Ascending(enriched)[i],
                                              Ascending(enriched)[i])]]]
            /\ UNCHANGED <<state, stateFile, cachedState, writes, process>>
       ELSE /\ (useSupabase => wok /\ survives)
            /\ (wok => survives)
            /\ updateState_notAwaited(cachedState, state, Charge(hist, k),
                                      Tag(sl),
                                      [lastScannedBlock |-> sl.toBlock],
                                      wok, survives)
            /\ scan' = [scan EXCEPT ![s] = AfterBatch(sl)]
    /\ UNCHANGED <<schemas, dbSchemas, dbState, chainHeight>>
    /\ ScanFrame

\* the ids of the schemas of a batch
BatchIds(batch) == {batch[i].schemaId : i \in 1..Len(batch)}

\* await this.repository.saveSchemas(schemas) returns or throws; on return
\* scanBatch returns and the loop body goes on to the checkpoint
Scan_saveSchemas(s) ==
  \E ok \in BOOLEAN, wok \in BOOLEAN, survives \in BOOLEAN :
    /\ process = "running"
    /\ scan[s].pc = "save"
    /\ hist.faults + Fault(~ok) + Fault(~wok) <= MaxFaults
    /\ schemas' = IF useSupabase THEN schemas
                  ELSE SchemaRepository_saveSchemas(schemas, state,
                                                    scan[s].batch).schemas
    /\ dbSchemas' = IF useSupabase /\ ok
                    THEN SupabaseSchemaRepository_saveSchemas(dbSchemas,
                                                             scan[s].batch)
                    ELSE dbSchemas
    /\ LET cachedNow == IF useSupabase /\ ok THEN <<>> ELSE cachedState
           stateNow == IF useSupabase THEN state
                       ELSE SchemaRepository_saveSchemas(schemas, state,
                                                         scan[s].batch).state
       IN
       IF ok
       THEN /\ (useSupabase => wok /\ survives)
            /\ (wok => survives)
            /\ updateState_notAwaited(cachedNow, stateNow,
                                      [Charge(hist, Fault(~wok)) EXCEPT
                                         !.saved = @ \cup BatchIds(scan[s].batch)],
                                      Tag(scan[s]),
                                      [lastScannedBlock |-> scan[s].toBlock],
                                      wok, survives)
            /\ scan' = [scan EXCEPT ![s] =
                 AfterBatch([@ EXCEPT !.saved = @ \cup BatchIds(scan[s].batch)])]
       ELSE /\ wok /\ survives
            /\ state' = stateNow
            /\ hist' = Charge(hist, 1)
            /\ scan' = [scan EXCEPT ![s] =
                          [@ EXCEPT !.pc = "rejected", !.error = "saveSchemas"]]
            /\ UNCHANGED <<stateFile, cachedState, writes, process>>
    /\ UNCHANGED <<dbState, chainHeight>>
    /\ ScanFrame

\* SupabaseSchemaRepository.updateState in flight, cache null at the call:
\* await this.loadState() returns (the row, or the default state on an
\* error), then the merge
Write_load(w) ==
  \E ok \in BOOLEAN :
    /\ process = "running"
    /\ w.stage = "load"
    /\ hist.faults + Fault(~ok) <= MaxFaults
    /\ hist' = Charge(hist, Fault(~ok))
    /\ cachedState' = <<Spread(SupabaseSchemaRepository_loadState(dbState, ok),
                               w.updates)>>
    /\ writes' = (writes \ {w}) \cup {[w EXCEPT !.stage = "update"]}
    /\ UNCHANGED <<schemas, state, stateFile, dbSchemas, dbState, chainHeight,
                   scan, process>>
    /\ ScanFrame

\* the request .update(dbUpdates).eq("id", 1) is answered: applied, or an
\* error that rejects a promise nobody holds
Write_update(w) ==
  \E ok \in BOOLEAN, survives \in BOOLEAN :
    /\ process = "running"
    /\ w.stage = "update"
    /\ hist.faults + Fault(~ok) <= MaxFaults
    /\ (ok => survives)
    /\ dbState' = IF ok THEN ApplyDbUpdate(dbState, dbUpdates(w.updates))
                  ELSE dbState
    /\ writes' = writes \ {w}
    /\ process' = IF survives THEN "running" ELSE "crashed"
    /\ hist' = IF ok THEN hist ELSE Refused(Charge(hist, 1), w.tag)
    /\ UNCHANGED <<schemas, state, stateFile, dbSchemas, cachedState,
                   chainHeight, scan>>
    /\ ScanFrame

\* the chain grows by a block
AdvanceChain ==
  /\ process = "running"
  /\ chainHeight < MaxHeight
  /\ chainHeight' = chainHeight + 1
  /\ UNCHANGED <<schemas, state, stateFile, dbSchemas, dbState, cachedState,
                 scan, writes, process, hist>>
  /\ ScanFrame

(***************************************************************************)
(* SpecScan: one HistoricalScanner on a fresh store; scan(a, b) is called, *)
(* and called again with the same arguments once it has completed.         *)
(***************************************************************************)
ScanInit ==
  /\ useSupabase \in BOOLEAN
  /\ StoreEmpty
  /\ cachedState = IF useSupabase THEN <<DefaultState>> ELSE <<>>
  /\ config \in [startBlock : {1}, batchSize : 1..MaxBatch]
  /\ chainHeight \in Heights
  /\ scan = [s \in Slots |-> IdleSlot]
  /\ writes = {}
  /\ process = "running"
  /\ timerOn = FALSE
  /\ hist = [calls |-> 0, faults |-> 0, failed |-> {}, saved |-> {},
             snap |-> <<>>]
  /\ MonitorIdle /\ LimiterIdle /\ RetryIdle /\ BusIdle /\ WatchIdle

\* totalSchemasIndexed as getState() returns it
TotalIndexed ==
  IF useSupabase
  THEN SupabaseSchemaRepository_getState(cachedState, dbState,
                                         TRUE).totalSchemasIndexed
  ELSE state.totalSchemasIndexed

\* what the store holds and counts, for comparison after a re-run
Snapshot ==
  [records |-> [id \in StoredIds |-> StoredSchema(id)], total |-> TotalIndexed]

\* the first call: scan(a, b) or scan(a)
Scan_call ==
  \E a \in Heights, b \in Heights \cup {Omitted} :
    /\ process = "running"
    /\ hist.calls = 0
    /\ scan[1].pc = "idle"
    /\ StartScan(1, 1, a, b)
    /\ hist' = [hist EXCEPT !.calls = 1]
    /\ UNCHANGED <<schemas, state, stateFile, dbSchemas, dbState, cachedState,
                   chainHeight, writes, process>>
    /\ ScanFrame

\* the same call again, after the first has completed normally
Scan_callAgain ==
  /\ process = "running"
  /\ hist.calls \in 1..(MaxCalls - 1)
  /\ scan[1].pc = "done"
  /\ StartScan(1, hist.calls + 1, scan[1].startBlock, scan[1].endBlock)
  /\ hist' = [hist EXCEPT !.calls = @ + 1, !.snap = <<Snapshot>>]
  /\ UNCHANGED <<schemas, state, stateFile, dbSchemas, dbState, cachedState,
                 chainHeight, writes, process>>
  /\ ScanFrame

\* SIGINT or SIGTERM: shutdownHandler awaits indexer.shutdown(), which
\* clears the periodic timer and stops the monitor and the webhook manager,
\* and then calls process.exit(0); nothing in it looks at the scanner
Scan_shutdown ==
  /\ process = "running"
  /\ hist.calls >= 1
  /\ process' = "exited"
  /\ timerOn' = FALSE
  /\ UNCHANGED <<schemas, state, stateFile, dbSchemas, dbState, cachedState,
                 chainHeight, scan, writes, hist>>
  /\ UNCHANGED <<useSupabase, config, monitor, limiterVars, retry, busVars,
                 watchVars, reported>>

ScanNext ==
  \/ Scan_call
  \/ Scan_shutdown
  \/ Scan_callAgain
  \/ Scan_getCurrentBlock(1)
  \/ Scan_getLogs(1)
  \/ Scan_saveSchemas(1)
  \/ \E w \in writes : Write_load(w)
  \/ \E w \in writes : Write_update(w)
  \/ AdvanceChain

SpecScan == ScanInit /\ [][ScanNext]_vars

(***************************************************************************)
(* SpecOrch: the running StreamLensIndexer on a store a previous run may   *)
(* have left a checkpoint in: initialize and the initial backfill, then    *)
(* the RealtimeMonitor and the catch-up scans of the periodic timer, whose *)
(* callback has no guard against a scan still in progress.                 *)
(***************************************************************************)
MaxTicks == 2        \* timer callbacks that start a catch-up scan
MaxOrchInFlight == 1 \* checkpoint requests in flight while scans overlap

\* state.lastScannedBlock > 0n ? state.lastScannedBlock + 1n : config.startBlock
NextStartBlock(st) ==
  IF st.lastScannedBlock > 0 THEN st.lastScannedBlock + 1 ELSE config.startBlock

\* the constructor of the JSON repository has run loadState (the file read,
\* or the default state on a read error); the Supabase cache is still null
OrchInit ==
  /\ useSupabase \in BOOLEAN
  /\ \E p0 \in {0, MaxHeight}, okLoad \in BOOLEAN :
       LET prev == [DefaultState EXCEPT !.lastScannedBlock = p0] IN
       IF useSupabase
       THEN /\ okLoad
            /\ dbState = [EmptyDbState EXCEPT
                            !.last_scanned_block = toString(p0)]
            /\ stateFile = SerializeState(DefaultState)
            /\ state = DefaultState
       ELSE /\ dbState = EmptyDbState
            /\ stateFile = SerializeState(prev)
            /\ state = IF okLoad THEN ParseState(stateFile) ELSE DefaultState
  /\ schemas = EmptyMap
  /\ dbSchemas = EmptyMap
  /\ cachedState = <<>>
  /\ reported = <<>>
  /\ config \in [startBlock : {1}, batchSize : 1..MaxBatch]
  /\ chainHeight \in Heights
  /\ scan = [s \in Slots |-> IdleSlot]
  /\ writes = {}
  /\ process = "running"
  /\ timerOn = FALSE
  /\ hist = [calls |-> 0, faults |-> 0, failed |-> {}, saved |-> {},
             snap |-> <<>>]
  /\ monitor = [pc |-> "off", id |-> 0, from |-> 0, done |-> {},
                indexed |-> {}]
  /\ LimiterIdle /\ RetryIdle /\ BusIdle /\ WatchIdle

OrchFrame ==
  UNCHANGED <<useSupabase, config, limiterVars, retry, busVars, watchVars,
                         reported>>

\* start(): repository.initialize(), then runHistoricalScan reads the state
\* and calls scan(startBlock)
Orch_start ==
  \E okLoad \in BOOLEAN :
    LET st == IF useSupabase
              THEN SupabaseSchemaRepository_loadState(dbState, okLoad)
              ELSE state
    IN
    /\ process = "running"
    /\ hist.calls = 0
    /\ ~useSupabase => okLoad
    /\ hist.faults + Fault(~okLoad) <= MaxFaults
    /\ cachedState' = IF useSupabase THEN <<st>> ELSE cachedState
    /\ StartScan(1, 1, NextStartBlock(st), Omitted)
    /\ hist' = [Charge(hist, Fault(~okLoad)) EXCEPT !.calls = 1]
    /\ UNCHANGED <<schemas, state, stateFile, dbSchemas, dbState, chainHeight,
                   writes, process, timerOn, monitor>>
    /\ OrchFrame

\* the backfill is complete: startRealtimeMonitoring starts the monitor and
\* the periodic timer
Orch_startRealtimeMonitoring ==
  /\ process = "running"
  /\ ~timerOn
  /\ scan[1].call = 1 /\ scan[1].pc = "done"
  /\ timerOn' = TRUE
  /\ monitor' = [monitor EXCEPT !.pc = "watching", !.from = chainHeight]
  /\ scan' = [scan EXCEPT ![1] = IdleSlot]
  /\ UNCHANGED <<schemas, state, stateFile, dbSchemas, dbState, cachedState,
                 chainHeight, writes, process, hist>>
  /\ OrchFrame

\* the backfill rejected: start() logs, shuts down and exits
Orch_startFailed ==
  /\ process = "running"
  /\ ~timerOn
  /\ scan[1].call = 1 /\ scan[1].pc = "rejected"
  /\ process' = "exited"
  /\ UNCHANGED <<schemas, state, stateFile, dbSchemas, dbState, cachedState,
                 chainHeight, scan, writes, timerOn, hist, monitor>>
  /\ OrchFrame

\* a catch-up scan has completed or rejected: the timer callback logs the
\* outcome and ends
Orch_tickEnds(s) ==
  /\ process = "running"
  /\ timerOn
  /\ scan[s].pc \in {"done", "rejected"}
  /\ scan' = [scan EXCEPT ![s] = IdleSlot]
  /\ UNCHANGED <<schemas, state, stateFile, dbSchemas, dbState, cachedState,
                 chainHeight, writes, process, timerOn, hist, monitor>>
  /\ OrchFrame

\* the slots that hold no scan in progress
FreeSlots == {s \in Slots : scan[s].pc = "idle"}

\* the setInterval callback: reads the state and calls scan(startBlock),
\* whether or not an earlier scan is still in progress
Orch_tick ==
  \E okLoad \in BOOLEAN :
    LET st == IF useSupabase
              THEN SupabaseSchemaRepository_getState(cachedState, dbState,
                                                     okLoad)
              ELSE state
        s == CHOOSE x \in FreeSlots : \A y \in FreeSlots : x <= y
    IN
    /\ process = "running"
    /\ timerOn
    /\ FreeSlots # {}
    /\ hist.calls < 1 + MaxTicks
    /\ (~useSupabase \/ cachedState # <<>>) => okLoad
    /\ hist.faults + Fault(~okLoad) <= MaxFaults
    /\ cachedState' = IF useSupabase THEN <<st>> ELSE cachedState
    /\ StartScan(s, hist.calls + 1, NextStartBlock(st), Omitted)
    /\ hist' = [Charge(hist, Fault(~okLoad)) EXCEPT !.calls = @ + 1]
    /\ UNCHANGED <<schemas, state, stateFile, dbSchemas, dbState, chainHeight,
                   writes, process, timerOn, monitor>>
    /\ OrchFrame

MonitorFrame == UNCHANGED <<stateFile, dbState, chainHeight, scan, writes,
                            process, timerOn>>

\* handleLogs hands processEvent the log of a schema registered since the
\* watch began: processEvent runs up to await this.repository.getSchema
Monitor_processEvent(id) ==
  /\ process = "running"
  /\ monitor.pc = "watching"
  /\ monitor.from < id /\ id <= chainHeight
  /\ id \notin monitor.done
  /\ monitor' = [monitor EXCEPT !.pc = "getSchema", !.id = id]
  /\ UNCHANGED <<schemas, state, dbSchemas, cachedState, hist>>
  /\ MonitorFrame /\ OrchFrame

\* getSchema returns: an existing record ends processEvent, a storage error
\* is thrown to handleLogs, which logs it
Monitor_getSchema ==
  \E ok \in BOOLEAN :
    /\ process = "running"
    /\ monitor.pc = "getSchema"
    /\ ~useSupabase => ok
    /\ hist.faults + Fault(~ok) <= MaxFaults
    /\ hist' = Charge(hist, Fault(~ok))
    /\ monitor' = IF ~ok THEN [monitor EXCEPT !.pc = "watching"]
                  ELSE IF monitor.id \in StoredIds
                  THEN [monitor EXCEPT !.pc = "watching",
                                       !.done = @ \cup {monitor.id}]
                  ELSE [monitor EXCEPT !.pc = "saveSchema"]
    /\ UNCHANGED <<schemas, state, dbSchemas, cachedState>>
    /\ MonitorFrame /\ OrchFrame

\* getBlock and getTransaction return (or exhaust their retries), then
\* await this.repository.saveSchema(schema) returns or throws; after a save
\* emitSchemaIndexed (monitor.indexed: the ids announced so)
Monitor_saveSchema ==
  \E okFetch \in BOOLEAN, ok \in BOOLEAN :
    /\ process = "running"
    /\ monitor.pc = "saveSchema"
    /\ ~okFetch => ok
    /\ hist.faults + Fault(~okFetch) + Fault(~ok) <= MaxFaults
    /\ hist' = Charge(hist, Fault(~okFetch) + Fault(~ok))
    /\ IF okFetch
       THEN UnifiedSchemaRepository_saveSchema(
              MinimalSchema(monitor.id, monitor.id), ok)
       ELSE UNCHANGED <<schemas, state, dbSchemas, cachedState>>
    /\ monitor' = [monitor EXCEPT
                     !.pc = "watching",
                     !.done = IF okFetch /\ ok THEN @ \cup {monitor.id} ELSE @,
                     !.indexed = IF okFetch /\ ok THEN @ \cup {monitor.id}
                                 ELSE @]
    /\ MonitorFrame /\ OrchFrame

OrchNext ==
  \/ Orch_start
  \/ Orch_startRealtimeMonitoring
  \/ Orch_startFailed
  \/ Orch_tick
  \/ \E s \in Slots : Orch_tickEnds(s)
  \/ \E s \in Slots : Scan_getCurrentBlock(s)
  \/ \E s \in Slots : Scan_getLogs(s) /\ Cardinality(writes') <= MaxOrchInFlight
  \/ \E s \in Slots :
       Scan_saveSchemas(s) /\ Cardinality(writes') <= MaxOrchInFlight
  \/ \E w \in writes : Write_load(w)
  \/ \E w \in writes : Write_update(w)
  \/ AdvanceChain
  \/ \E id \in Ids : Monitor_processEvent(id)
  \/ Monitor_getSchema
  \/ Monitor_saveSchema

SpecOrch == OrchInit /\ [][OrchNext]_vars

(***************************************************************************)
(* SpecRuns: the indexer started with START_BLOCK set in the environment   *)
(* on a store that holds no progress, and started again after each         *)
(* backfill that completed.  config.startBlock and the default state of    *)
(* loadState both read START_BLOCK.  stateFile is what a read of           *)
(* state.json yields: the file's content or, while there is no file, the   *)
(* default state.  The database has the row schema.sql inserts.  Reads of  *)
(* the state succeed here.                                                 *)
(***************************************************************************)
\* lastScannedBlock: BigInt(process.env.START_BLOCK || "0") in the default
\* state that loadState returns when there is no file
loadState_default(startBlockEnv) ==
  [DefaultState EXCEPT !.lastScannedBlock = startBlockEnv]

RunsInit ==
  /\ useSupabase \in BOOLEAN
  /\ config \in [startBlock : {1, 2}, batchSize : 1..MaxBatch]
  /\ schemas = EmptyMap
  /\ dbSchemas = EmptyMap
  /\ dbState = EmptyDbState
  /\ state = IF useSupabase THEN DefaultState
             ELSE loadState_default(config.startBlock)
  /\ stateFile = SerializeState(state)
  /\ cachedState = <<>>
  /\ reported = <<>>
  /\ chainHeight \in Heights
  /\ scan = [s \in Slots |-> IdleSlot]
  /\ writes = {}
  /\ process = "running"
  /\ timerOn = FALSE
  /\ hist = [calls |-> 0, faults |-> 0, failed |-> {}, saved |-> {},
             snap |-> <<>>, covered |-> <<>>, missed |-> {}]
  /\ MonitorIdle /\ LimiterIdle /\ RetryIdle /\ BusIdle /\ WatchIdle

\* the process starts (for the first time, or again after the backfill of
\* the run before has completed and its writes are done): the repository
\* loads the state, runHistoricalScan reads it and calls scan(startBlock).
\* covered keeps the windows of the runs before, missed the events those
\* runs left out because a fetch failed.
Runs_start ==
  LET st == IF useSupabase
            THEN SupabaseSchemaRepository_loadState(dbState, TRUE)
            ELSE ParseState(stateFile)
  IN
  /\ process = "running"
  /\ hist.calls < MaxCalls
  /\ scan[1].pc = IF hist.calls = 0 THEN "idle" ELSE "done"
  /\ writes = {}
  /\ state' = IF useSupabase THEN state ELSE st
  /\ cachedState' = IF useSupabase THEN <<st>> ELSE cachedState
  /\ StartScan(1, hist.calls + 1, NextStartBlock(st), Omitted)
  /\ hist' = [hist EXCEPT !.calls = @ + 1,
                          !.covered = @ \o scan[1].fetched,
                          !.missed = @ \cup scan[1].skipped]
  /\ UNCHANGED <<schemas, stateFile, dbSchemas, dbState, chainHeight, writes,
                 process>>
  /\ ScanFrame

RunsNext ==
  \/ Runs_start
  \/ Scan_getCurrentBlock(1)
  \/ Scan_getLogs(1)
  \/ Scan_saveSchemas(1)
  \/ \E w \in writes : Write_load(w)
  \/ \E w \in writes : Write_update(w)
  \/ AdvanceChain

SpecRuns == RunsInit /\ [][RunsNext]_vars

(***************************************************************************)
(* retryWithBackoff(fn, config): one call, from the merge of the config    *)
(* with DEFAULT_RETRY_CONFIG to the return or the throw.  fn's outcome at  *)
(* each invocation is an input; the error of the k-th invocation is k.     *)
(***************************************************************************)
MaxRetriesBound == 3     \* maxRetries in 0..MaxRetriesBound

RetryConfigs ==
  [maxRetries : 0..MaxRetriesBound,
   delayMs : {500, 1000, 20000},
   backoffMultiplier : {1, 2, 3},
   maxDelayMs : {1500, 10000}]

Min(a, b) == IF a < b THEN a ELSE b

RECURSIVE Pow(_, _)
Pow(b, e) == IF e = 0 THEN 1 ELSE b * Pow(b, e - 1)

\* attempt <= cfg.maxRetries, the for loop's condition
RetryLoopCondition(attempt, cfg) == attempt <= cfg.maxRetries

\* a mutant of RetryIsLast: the last attempt is not recognised
RetryIsLast_never(attempt, cfg) == FALSE

\* attempt === cfg.maxRetries, the test before the break
RetryIsLast(attempt, cfg) == attempt = cfg.maxRetries

\* delay = Math.min(delay * cfg.backoffMultiplier, cfg.maxDelayMs)
RetryNextDelay(delay, cfg) == Min(delay * cfg.backoffMultiplier, cfg.maxDelayMs)

RetryInit ==
  /\ retry \in {[cfg |-> c, pc |-> "loop", attempt |-> 1, delay |-> c.delayMs,
                 lastError |-> 0, result |-> 0, outcomes |-> <<>>,
                 sleeps |-> <<>>] : c \in RetryConfigs}
  /\ useSupabase = FALSE /\ StoreEmpty /\ cachedState = <<>>
  /\ hist = <<>>
  /\ ScanIdle /\ MonitorIdle /\ LimiterIdle /\ BusIdle /\ WatchIdle

RetryFrame ==
  UNCHANGED <<storeVars, scanVars, monitor, limiterVars, busVars, watchVars>>

\* the for loop's test: enter the body or fall out to "throw lastError"
Retry_loop ==
  /\ retry.pc = "loop"
  /\ retry' = [retry EXCEPT !.pc = IF RetryLoopCondition(retry.attempt, retry.cfg)
                                   THEN "call" ELSE "thrown"]
  /\ RetryFrame

\* return await fn(): fn resolves
Retry_fnResolves ==
  /\ retry.pc = "call"
  /\ retry' = [retry EXCEPT !.pc = "returned",
                            !.outcomes = Append(@, TRUE),
                            !.result = Len(retry.outcomes) + 1]
  /\ RetryFrame

\* fn rejects: the catch block up to the break or the sleep
Retry_fnRejects ==
  /\ retry.pc = "call"
  /\ retry' = [retry EXCEPT !.outcomes = Append(@, FALSE),
                            !.lastError = Len(retry.outcomes) + 1,
                            !.pc = IF RetryIsLast(retry.attempt, retry.cfg)
                                   THEN "thrown" ELSE "sleep"]
  /\ RetryFrame

\* await sleep(delay); the new delay; attempt++
Retry_sleep ==
  /\ retry.pc = "sleep"
  /\ retry' = [retry EXCEPT !.sleeps = Append(@, retry.delay),
                            !.delay = RetryNextDelay(retry.delay, retry.cfg),
                            !.attempt = @ + 1,
                            !.pc = "loop"]
  /\ RetryFrame

RetryNext == Retry_loop \/ Retry_fnResolves \/ Retry_fnRejects \/ Retry_sleep

SpecRetry == RetryInit /\ [][RetryNext]_vars

(***************************************************************************)
(* RateLimiter.  A caller of execute() runs synchronously up to each await;*)
(* every action below is one such stretch.  Between "admitted"/"released"  *)
(* (waitForSlot's promise resolved) and running++ lies the await of        *)
(* execute(), a point where other callers run.                             *)
(***************************************************************************)
MaxCallers == 3          \* callers of execute()
MaxConcurrentBound == 2  \* maxConcurrent in 1..MaxConcurrentBound
MaxTime == 3             \* clock ticks after the start

Callers == 1..MaxCallers

\* this.running >= this.maxConcurrent
\* a waitForSlot that queues every caller, also behind an idle limiter
SlotBusy_always(run, cfg) == TRUE

SlotBusy(run, cfg) == run >= cfg.maxConcurrent

\* waitForSlot after the spacing wait: lastCallTime = Date.now(), then queue
\* behind a full limiter or return
AfterSpacing(c, me) ==
  /\ lastCallTime' = now
  /\ IF SlotBusy(running, limiterCfg)
     THEN /\ queue' = Append(queue, c)
          /\ caller' = [caller EXCEPT ![c] =
                          [me EXCEPT !.pc = "queued", !.wakeAt = 0]]
     ELSE /\ queue' = queue
          /\ caller' = [caller EXCEPT ![c] =
                          [me EXCEPT !.pc = "admitted", !.wakeAt = 0]]

\* the callers in this.queue
Queued == {queue[i] : i \in 1..Len(queue)}

\* a caller as it calls execute: ahead is the callers that are in the queue
\* at that moment and have not started since, startedAt the time at which
\* its last operation started (-1: none yet), outcome how its last execute
\* call ended
Arriving(c) == [caller[c] EXCEPT !.ahead = Queued, !.outcome = "pending"]

LimiterInit ==
  /\ limiterCfg \in [maxConcurrent : 1..MaxConcurrentBound, minDelayMs : {0, 2}]
  /\ running = 0
  /\ queue = <<>>
  /\ lastCallTime = 0
  /\ now = limiterCfg.minDelayMs
  /\ caller = [c \in Callers |-> [pc |-> "idle", wakeAt |-> 0, ahead |-> {},
                                  startedAt |-> -1, outcome |-> "none"]]
  /\ useSupabase = FALSE /\ StoreEmpty /\ cachedState = <<>>
  /\ hist = <<>>
  /\ ScanIdle /\ MonitorIdle /\ RetryIdle /\ BusIdle /\ WatchIdle

LimiterFrame ==
  UNCHANGED <<storeVars, scanVars, monitor, retry, busVars, watchVars,
              limiterCfg>>

\* execute(fn) up to the first await: waitForSlot's spacing test
Limiter_execute(c) ==
  /\ caller[c].pc = "idle"
  /\ IF now - lastCallTime < limiterCfg.minDelayMs
     THEN /\ caller' = [caller EXCEPT ![c] =
                [Arriving(c) EXCEPT
                   !.pc = "sleeping",
                   !.wakeAt = now + (limiterCfg.minDelayMs - (now - lastCallTime))]]
          /\ UNCHANGED <<lastCallTime, queue>>
     ELSE AfterSpacing(c, Arriving(c))
  /\ UNCHANGED <<running, now>>
  /\ LimiterFrame

\* the spacing sleep ends
Limiter_wake(c) ==
  /\ caller[c].pc = "sleeping"
  /\ now >= caller[c].wakeAt
  /\ AfterSpacing(c, caller[c])
  /\ UNCHANGED <<running, now>>
  /\ LimiterFrame

\* execute() resumes after await waitForSlot(): running++ and fn() starts
Limiter_start(c) ==
  /\ caller[c].pc \in {"admitted", "released"}
  /\ running' = running + 1
  /\ caller' = [d \in Callers |->
                  IF d = c THEN [caller[c] EXCEPT !.pc = "running",
                                                  !.startedAt = now]
                  ELSE [caller[d] EXCEPT !.ahead = @ \ {c}]]
  /\ UNCHANGED <<queue, lastCallTime, now>>
  /\ LimiterFrame

\* fn() settles (resolves or rejects): the finally block, running-- and
\* processQueue(); then execute returns fn's value or rethrows its error
Limiter_settle(c) ==
  \E outcome \in {"returned", "threw"} :
  /\ caller[c].pc = "running"
  /\ running' = running - 1
  /\ IF Len(queue) > 0 /\ running' < limiterCfg.maxConcurrent
     THEN /\ queue' = Tail(queue)
          /\ caller' = [caller EXCEPT ![c].pc = "idle",
                                      ![c].outcome = outcome,
                                      ![Head(queue)].pc = "released"]
     ELSE /\ queue' = queue
          /\ caller' = [caller EXCEPT ![c].pc = "idle",
                                      ![c].outcome = outcome]
  /\ UNCHANGED <<lastCallTime, now>>
  /\ LimiterFrame

\* time passes; a caller whose await has been resolved resumes in a
\* microtask, before the clock moves
Limiter_tick ==
  /\ now < limiterCfg.minDelayMs + MaxTime
  /\ \A c \in Callers : caller[c].pc \notin {"admitted", "released"}
  /\ now' = now + 1
  /\ UNCHANGED <<running, queue, lastCallTime, caller>>
  /\ LimiterFrame

LimiterNext ==
  \/ \E c \in Callers : Limiter_execute(c)
  \/ \E c \in Callers : Limiter_wake(c)
  \/ \E c \in Callers : Limiter_start(c)
  \/ \E c \in Callers : Limiter_settle(c)
  \/ Limiter_tick

SpecLimiter == LimiterInit /\ [][LimiterNext]_vars

(***************************************************************************)
(* What the publishers see of the event bus (the emitter's own section is  *)
(* further down): the listeners subscribed to a kind, each returning or    *)
(* throwing, and the outcome of emit.                                      *)
(***************************************************************************)
MaxListeners == 2    \* listeners subscribed at one time, over all kinds
MaxEmits == 2        \* emit* calls in one behaviour

IndexerEventType ==
  {"schema:discovered", "schema:indexed", "schema:enriched",
   "connection:established", "connection:lost", "error"}

ListenerKinds == {"returns", "throws"}

\* the position of the first listener that throws, 0 when none does
RECURSIVE FirstThrow(_, _)
FirstThrow(listeners, i) ==
  IF i > Len(listeners) THEN 0
  ELSE IF listeners[i] = "throws" THEN i
  ELSE FirstThrow(listeners, i + 1)

\* EventEmitter.emit(kind, event): an "error" event without a listener is
\* thrown; otherwise the listeners are called in order and the exception of
\* a listener leaves emit at once
EventEmitter_emit(listeners, kind) ==
  IF kind = "error" /\ listeners = <<>>
  THEN [threw |-> TRUE, notified |-> 0]
  ELSE LET t == FirstThrow(listeners, 1) IN
       IF t = 0 THEN [threw |-> FALSE, notified |-> Len(listeners)]
       ELSE [threw |-> TRUE, notified |-> t]

\* the listeners subscribed with onError: none (the indexer and the webhook
\* manager subscribe none), or up to MaxListeners, each returning or throwing
ErrorListenerLists == UNION {[1..n -> ListenerKinds] : n \in 0..MaxListeners}

\* the emitter with these listeners subscribed to "error"
SubscribedToError(L) ==
  [listeners |-> [k \in IndexerEventType |-> IF k = "error" THEN L ELSE <<>>],
   emits |-> 0, last |-> <<>>]

\* indexerEvents.emitError({error, context}) throws into its caller
emitError_throws == EventEmitter_emit(bus.listeners["error"], "error").threw

(***************************************************************************)
(* RealtimeMonitor's connection life cycle: start, stop, connect,          *)
(* watchEvents, handleWatchError, handleConnectionError and the reconnect  *)
(* timer.  A watcher stays subscribed, and polls, until the unwatch        *)
(* function that watchContractEvent returned for it is called; a timer     *)
(* stays pending until it fires or clearTimeout is called on its handle.   *)
(***************************************************************************)
MaxReconnectBound == 2   \* maxReconnectAttempts in 1..MaxReconnectBound
MaxWatchers == 3         \* watchers installed in one behaviour
MaxTimers == 3           \* reconnect timers set in one behaviour
MaxStarts == 2           \* calls of start() in one behaviour
MaxStops == 3            \* calls of stop() from outside in one behaviour
MaxPollErrors == 2       \* errors the watchers report in one behaviour

SessionConfigs ==
  [reconnectDelay : {1000, 5000}, maxReconnectAttempts : 1..MaxReconnectBound]

\* stop(): 0 stands for null
RealtimeMonitor_stop(s) ==
  [s EXCEPT !.isRunning = FALSE,
            !.timers = @ \ {s.reconnectTimer},
            !.reconnectTimer = 0,
            !.watchers = @ \ {s.unwatch},
            !.unwatch = 0,
            !.wsClient = FALSE,
            !.stopped = TRUE]

\* handleConnectionError(error)
RealtimeMonitor_handleConnectionError(s) ==
  IF ~s.isRunning THEN s
  ELSE LET attempts == s.reconnectAttempts + 1 IN
       IF attempts > s.cfg.maxReconnectAttempts
       THEN RealtimeMonitor_stop([s EXCEPT !.reconnectAttempts = attempts])
       ELSE [s EXCEPT !.reconnectAttempts = attempts,
                      !.reconnectTimer = s.timersSet + 1,
                      !.timers = @ \cup {s.timersSet + 1},
                      !.timersSet = @ + 1,
                      !.scheduled = Append(@, s.cfg.reconnectDelay * attempts)]

\* connect(): creating the client throws, or the client is created, the
\* attempts are reset and watchEvents installs a watcher or fails to
RealtimeMonitor_connect(s, outcome) ==
  IF outcome = "clientThrows" THEN RealtimeMonitor_handleConnectionError(s)
  ELSE LET c == [s EXCEPT !.wsClient = TRUE, !.reconnectAttempts = 0] IN
       IF outcome = "watchThrows" THEN RealtimeMonitor_handleConnectionError(c)
       ELSE [c EXCEPT !.unwatch = s.watchersMade + 1,
                      !.watchers = @ \cup {s.watchersMade + 1},
                      !.watchersMade = @ + 1]

ConnectOutcomes == {"ok", "clientThrows", "watchThrows"}

\* isHealthy()
RealtimeMonitor_isHealthy(s) == s.isRunning /\ s.wsClient

SessionInit ==
  /\ session \in {[cfg |-> c, isRunning |-> FALSE, wsClient |-> FALSE,
                   unwatch |-> 0, reconnectAttempts |-> 0, reconnectTimer |-> 0,
                   watchers |-> {}, timers |-> {}, watchersMade |-> 0,
                   timersSet |-> 0, scheduled |-> <<>>, stopped |-> FALSE,
                   starts |-> 0, stops |-> 0, pollErrors |-> 0,
                   lastPoll |-> "none"] : c \in SessionConfigs}
  /\ bus \in {SubscribedToError(L) : L \in ErrorListenerLists}
  /\ webhook = <<>>
  /\ handlers = <<>> /\ remote = <<>>
  /\ useSupabase = FALSE /\ StoreEmpty /\ cachedState = <<>>
  /\ hist = <<>>
  /\ ScanIdle /\ MonitorIdle /\ LimiterIdle /\ RetryIdle

SessionFrame ==
  UNCHANGED <<storeVars, scanVars, monitor, limiterVars, retry, busVars,
              handlers, remote>>

\* room for one more watcher and one more timer
SessionRoom ==
  session.watchersMade < MaxWatchers /\ session.timersSet < MaxTimers

\* start(): nothing when already running; else connect(), whose errors
\* connect itself catches, then isRunning = true
Session_start ==
  \E outcome \in ConnectOutcomes :
    /\ SessionRoom
    /\ session.starts < MaxStarts
    /\ ~session.isRunning
    /\ session' = [RealtimeMonitor_connect(session, outcome) EXCEPT
                     !.isRunning = TRUE, !.stopped = FALSE,
                     !.scheduled = <<>>, !.starts = @ + 1]
    /\ SessionFrame

\* stop()
Session_stop ==
  /\ session.stops < MaxStops
  /\ session' = [RealtimeMonitor_stop(session) EXCEPT !.stops = @ + 1]
  /\ SessionFrame

\* handleWatchError(error) for an error with a message: emitError first,
\* and what it throws leaves handleWatchError; then handleConnectionError
\* when the message has "connection" or "network" in it
RealtimeMonitor_handleWatchError(s, kind, threw) ==
  IF threw THEN s
  ELSE IF kind = "connectivity" THEN RealtimeMonitor_handleConnectionError(s)
  ELSE s

\* a poll of a subscribed watcher fails and onError is called: an error
\* without a message is only logged, the others go to handleWatchError.
\* pollErrors and lastPoll keep the number of errors and the last one's kind.
Session_pollError(w) ==
  \E kind \in {"empty", "other", "connectivity"} :
    /\ SessionRoom
    /\ session.pollErrors < MaxPollErrors
    /\ w \in session.watchers
    /\ LET s == [session EXCEPT !.pollErrors = @ + 1, !.lastPoll = kind] IN
       session' = IF kind = "empty" THEN s
                  ELSE RealtimeMonitor_handleWatchError(s, kind,
                                                        emitError_throws)
    /\ SessionFrame

\* a pending reconnect timer fires: this.connect()
Session_reconnectTimer(t) ==
  \E outcome \in ConnectOutcomes :
    /\ SessionRoom
    /\ t \in session.timers
    /\ session' = RealtimeMonitor_connect(
                    [session EXCEPT !.timers = @ \ {t}], outcome)
    /\ SessionFrame

SessionNext ==
  \/ Session_start
  \/ Session_stop
  \/ \E w \in 1..MaxWatchers : Session_pollError(w)
  \/ \E t \in 1..MaxTimers : Session_reconnectTimer(t)

SpecSession == SessionInit /\ [][SessionNext]_vars

(***************************************************************************)
(* RealtimeMonitor.handleLogs: the watcher calls onLogs with the logs of   *)
(* each poll and does not wait for the promise handleLogs returns, so the  *)
(* handleLogs call of one poll may still be between two awaits when the    *)
(* next poll (of the same or of another subscribed watcher) delivers its   *)
(* logs.  A log is identified by its schema id.  handlers[b] is the call   *)
(* for the b-th delivery: its logs, the log it is at, where it is inside   *)
(* processEvent, and what it did with each log.                            *)
(***************************************************************************)
MaxPolls == 2        \* deliveries of logs to onLogs

Polls == 1..MaxPolls

LogBatches == UNION {[1..n -> Ids] : n \in 1..MaxBatchLen}

\* the for loop of handleLogs moves to the next log: processEvent runs up
\* to await this.repository.getSchema, or handleLogs returns
NextLog(h) ==
  IF h.i < Len(h.logs) THEN [h EXCEPT !.i = @ + 1, !.pc = "getSchema"]
  ELSE [h EXCEPT !.pc = "done"]

\* handleLogs' catch block for the log it is at: the error is logged and
\* emitError is called; when that throws the exception leaves handleLogs,
\* whose promise rejects, else the for loop goes on
CatchLog(h, threw) ==
  LET f == [h EXCEPT !.failed = @ \cup {h.i}] IN
  IF threw THEN [f EXCEPT !.pc = "rejected"] ELSE NextLog(f)

\* the for loop of handleLogs moves to the next log, before processEvent
\* is called for it, or handleLogs returns
NextLogOf(h) ==
  IF h.i < Len(h.logs) THEN [h EXCEPT !.i = @ + 1, !.pc = "next"]
  ELSE [h EXCEPT !.pc = "done"]

HandleInit ==
  /\ useSupabase \in BOOLEAN
  /\ StoreEmpty
  /\ cachedState = IF useSupabase THEN <<DefaultState>> ELSE <<>>
  /\ hist = [faults |-> 0]
  /\ session = <<>> /\ remote = <<>>
  /\ handlers \in [Polls -> {[logs |-> l, i |-> 0, pc |-> "pending",
                              skipped |-> {}, indexed |-> {}, failed |-> {}] :
                               l \in LogBatches}]
  /\ bus \in {SubscribedToError(L) : L \in ErrorListenerLists}
  /\ webhook = <<>>
  /\ ScanIdle /\ MonitorIdle /\ LimiterIdle /\ RetryIdle

HandleFrame ==
  UNCHANGED <<stateFile, dbState, reported, config, chainHeight, scan, writes,
              process, timerOn, monitor, limiterVars, retry, busVars, session,
              remote>>

\* onLogs: handleLogs(logs) starts on the first log
Handle_handleLogs(b) ==
  /\ handlers[b].pc = "pending"
  /\ \A a \in Polls : a < b => handlers[a].pc # "pending"
  /\ handlers' = [handlers EXCEPT ![b] = NextLog(@)]
  /\ UNCHANGED <<useSupabase, schemas, state, dbSchemas, cachedState, hist>>
  /\ HandleFrame

\* getSchema returns: an existing record ends processEvent for this log, a
\* storage error is thrown to handleLogs' catch block
Handle_getSchema(b) ==
  \E ok \in BOOLEAN :
    LET h == handlers[b] IN
    /\ h.pc = "getSchema"
    /\ ~useSupabase => ok
    /\ hist.faults + Fault(~ok) <= MaxFaults
    /\ hist' = Charge(hist, Fault(~ok))
    /\ handlers' = [handlers EXCEPT ![b] =
         IF ~ok THEN CatchLog(h, emitError_throws)
         ELSE IF h.logs[h.i] \in StoredIds
         THEN NextLog([h EXCEPT !.skipped = @ \cup {h.i}])
         ELSE [h EXCEPT !.pc = "saveSchema"]]
    /\ UNCHANGED <<useSupabase, schemas, state, dbSchemas, cachedState>>
    /\ HandleFrame

\* getBlock and getTransaction return (or exhaust their retries), then
\* await this.repository.saveSchema(schema) returns or throws; after the
\* save emitSchemaIndexed({schema, isNew: true})
Handle_saveSchema(b) ==
  \E okFetch \in BOOLEAN, ok \in BOOLEAN :
    LET h == handlers[b] IN
    /\ h.pc = "saveSchema"
    /\ ~okFetch => ok
    /\ hist.faults + Fault(~okFetch) + Fault(~ok) <= MaxFaults
    /\ hist' = Charge(hist, Fault(~okFetch) + Fault(~ok))
    /\ IF okFetch
       THEN UnifiedSchemaRepository_saveSchema(
              MinimalSchema(h.logs[h.i], h.logs[h.i]), ok)
       ELSE UNCHANGED <<schemas, state, dbSchemas, cachedState>>
    /\ handlers' = [handlers EXCEPT ![b] =
         IF okFetch /\ ok THEN NextLog([h EXCEPT !.indexed = @ \cup {h.i}])
         ELSE CatchLog(h, emitError_throws)]
    /\ UNCHANGED useSupabase
    /\ HandleFrame

HandleNext ==
  \/ \E b \in Polls : Handle_handleLogs(b)
  \/ \E b \in Polls : Handle_getSchema(b)
  \/ \E b \in Polls : Handle_saveSchema(b)

SpecHandle == HandleInit /\ [][HandleNext]_vars

(***************************************************************************)
(* Remote calls.  The indexer builds one HistoricalScanner, one            *)
(* SchemaEnricher and one RealtimeMonitor.  The scanner and the enricher   *)
(* each construct a RateLimiter of their own; the monitor has none.  A     *)
(* task is one invocation in progress (a scan, a handleLogs, an            *)
(* enrichAllSchemas or verifySchemasWithSDK); it awaits each remote call,  *)
(* so it has at most one in flight.  A call made through a limiter starts  *)
(* when the limiter's running count is below its maxConcurrent.            *)
(***************************************************************************)
ScannerMaxConcurrent == 5    \* new RateLimiter(5, 200)
EnricherMaxConcurrent == 3   \* new RateLimiter(3, 300)

RateLimiters ==
  [scanner |-> [maxConcurrent |-> ScannerMaxConcurrent, minDelayMs |-> 200],
   enricher |-> [maxConcurrent |-> EnricherMaxConcurrent, minDelayMs |-> 300]]

NoLimiter == "none"

\* every place a component makes a remote call, and the limiter it goes
\* through
ScannerCallSites ==
  {[component |-> "scanner", call |-> "getLogs", via |-> "scanner"],
   [component |-> "scanner", call |-> "getBlock", via |-> "scanner"],
   [component |-> "scanner", call |-> "getTransaction", via |-> "scanner"],
   [component |-> "scanner", call |-> "getBlockNumber", via |-> NoLimiter]}

MonitorCallSites ==
  {[component |-> "monitor", call |-> "getBlock", via |-> NoLimiter],
   [component |-> "monitor", call |-> "getTransaction", via |-> NoLimiter]}

EnricherCallSites ==
  {[component |-> "enricher", call |-> "schemaIdToSchemaName",
    via |-> "enricher"],
   [component |-> "enricher", call |-> "getSchemaFromSchemaId",
    via |-> "enricher"],
   [component |-> "enricher", call |-> "parentSchemaId", via |-> "enricher"],
   [component |-> "enricher", call |-> "totalPublisherDataForSchema",
    via |-> "enricher"],
   [component |-> "enricher", call |-> "getAllSchemas", via |-> NoLimiter]}

CallSites == ScannerCallSites \cup MonitorCallSites \cup EnricherCallSites

\* the invocations that can be in progress at once: overlapping scans of
\* the periodic timer, overlapping handleLogs, one enricher run
Tasks ==
  {<<"scanner", k>> : k \in 1..MaxScans} \cup
  {<<"monitor", k>> : k \in 1..MaxPolls} \cup {<<"enricher", 1>>}

InFlightCalls == {t \in Tasks : remote[t] # <<>>}

\* this.running of a limiter
Running(l) == Cardinality({t \in InFlightCalls : remote[t][1].via = l})

RemoteInit ==
  /\ remote = [t \in Tasks |-> <<>>]
  /\ session = <<>> /\ handlers = <<>>
  /\ useSupabase = FALSE /\ StoreEmpty /\ cachedState = <<>>
  /\ hist = <<>>
  /\ ScanIdle /\ MonitorIdle /\ LimiterIdle /\ RetryIdle /\ BusIdle

RemoteFrame ==
  UNCHANGED <<storeVars, scanVars, monitor, limiterVars, retry, busVars,
              session, handlers>>

\* a task reaches one of its component's call sites and the call is sent
Remote_issue(t) ==
  \E site \in CallSites :
    /\ site.component = t[1]
    /\ remote[t] = <<>>
    /\ site.via # NoLimiter =>
         ~SlotBusy(Running(site.via), RateLimiters[site.via])
    /\ remote' = [remote EXCEPT ![t] = <<site>>]
    /\ RemoteFrame

\* the call returns or fails
Remote_settle(t) ==
  /\ remote[t] # <<>>
  /\ remote' = [remote EXCEPT ![t] = <<>>]
  /\ RemoteFrame

RemoteNext ==
  \/ \E t \in Tasks : Remote_issue(t)
  \/ \E t \in Tasks : Remote_settle(t)

SpecRemote == RemoteInit /\ [][RemoteNext]_vars

(***************************************************************************)
(* WebhookManager.sendWebhook: one call for one event and one registered   *)
(* webhook.  The data is the event as the pipeline publishes it (values    *)
(* tagged with their JavaScript type), or data of plain JSON values, which *)
(* sendWebhook's parameter (unknown) also admits.                          *)
(***************************************************************************)
MaxWebhookRetries == 2   \* config.retries in 0..MaxWebhookRetries

JsString(v) == [type |-> "string", v |-> v]
JsNumber(v) == [type |-> "number", v |-> v]
JsBoolean(v) == [type |-> "boolean", v |-> v]
JsBigInt(v) == [type |-> "bigint", v |-> v]

\* SchemaDiscoveredEvent as processEvent emits it
SchemaDiscoveredEvent(id, blockNumber) ==
  [schemaId |-> JsString(id), blockNumber |-> JsBigInt(blockNumber),
   timestamp |-> JsNumber(0), transactionHash |-> JsString(id)]

\* SchemaIndexedEvent / SchemaEnrichedEvent: the IndexedSchema they carry
SchemaEvent(id, blockNumber, name) ==
  [schemaId |-> JsString(id), schemaName |-> JsString(name),
   blockNumber |-> JsBigInt(blockNumber), timestamp |-> JsNumber(0),
   isPublic |-> JsBoolean(TRUE)]

\* the events the pipeline publishes to the three webhook event types
PublishedEvents ==
  {SchemaDiscoveredEvent(id, h) : id \in Ids, h \in Heights} \cup
  {SchemaEvent(id, h, n) : id \in Ids, h \in Heights, n \in {"", "N"}}

\* data without a bigint
PlainEvents == {[schemaId |-> JsString(id)] : id \in Ids}

\* JSON.stringify(payload): a TypeError when a value is a bigint, else the text
JSON_stringify(data) ==
  IF \E k \in DOMAIN data : data[k].type = "bigint"
  THEN [throws |-> TRUE, text |-> <<>>]
  ELSE [throws |-> FALSE, text |-> <<data>>]

\* const maxRetries = config.retries || 3
WebhookMaxRetries(cfg) == IF cfg.retries = 0 THEN 3 ELSE cfg.retries

\* Math.min(1000 * Math.pow(2, attempt), 10000)
WebhookDelay(attempt) == Min(1000 * Pow(2, attempt), 10000)

WebhookInit ==
  /\ webhook \in {[cfg |-> [retries |-> r], data |-> d, pc |-> "try",
                   attempt |-> 0, posts |-> <<>>, sleeps |-> <<>>] :
                  r \in 0..MaxWebhookRetries,
                  d \in PublishedEvents \cup PlainEvents}
  /\ bus = <<>>
  /\ useSupabase = FALSE /\ StoreEmpty /\ cachedState = <<>>
  /\ hist = <<>>
  /\ ScanIdle /\ MonitorIdle /\ LimiterIdle /\ RetryIdle /\ WatchIdle

WebhookFrame ==
  UNCHANGED <<storeVars, scanVars, monitor, limiterVars, retry, bus,
              watchVars>>

\* the catch block and the for loop's increment and test after a failed
\* attempt: back off and try again, or fall out of the loop to logger.error
WebhookAfterFailure(w) ==
  IF w.attempt < WebhookMaxRetries(w.cfg)
  THEN [w EXCEPT !.pc = "sleep", !.sleeps = Append(@, WebhookDelay(w.attempt))]
  ELSE [w EXCEPT !.pc = "failed", !.attempt = @ + 1]

\* the try block up to await fetch(...): the body is serialised while the
\* arguments of fetch are built
Webhook_try ==
  /\ webhook.pc = "try"
  /\ webhook.attempt <= WebhookMaxRetries(webhook.cfg)
  /\ webhook' = IF JSON_stringify(webhook.data).throws
                THEN WebhookAfterFailure(webhook)
                ELSE [webhook EXCEPT !.pc = "fetch"]
  /\ WebhookFrame

\* fetch settles: a 2xx response, another response, or a rejection (the
\* abort of the timeout, a transport error)
Webhook_fetch ==
  \E outcome \in {"2xx", "non2xx", "rejected"} :
    /\ webhook.pc = "fetch"
    /\ webhook' = IF outcome = "2xx"
                  THEN [webhook EXCEPT !.pc = "delivered",
                                       !.posts = Append(@, outcome)]
                  ELSE WebhookAfterFailure(
                         [webhook EXCEPT !.posts = Append(@, outcome)])
    /\ WebhookFrame

\* the backoff timer fires: attempt++ and the next iteration
Webhook_sleep ==
  /\ webhook.pc = "sleep"
  /\ webhook' = [webhook EXCEPT !.pc = "try", !.attempt = @ + 1]
  /\ WebhookFrame

WebhookNext == Webhook_try \/ Webhook_fetch \/ Webhook_sleep

SpecWebhook == WebhookInit /\ [][WebhookNext]_vars

(***************************************************************************)
(* IndexerEventEmitter: a Node EventEmitter with one emit* and one on*     *)
(* method per event kind.  emit(kind, event) calls the listeners of the    *)
(* kind synchronously, in the order they were added, inside the            *)
(* publisher's call; none of the emit* methods has a try/catch, so what    *)
(* emit throws reaches the publisher.  A listener either returns or        *)
(* throws.                                                                 *)
(***************************************************************************)
\* this.off(kind, callback)
Without(listeners, i) ==
  SubSeq(listeners, 1, i - 1) \o SubSeq(listeners, i + 1, Len(listeners))

RECURSIVE SumLen(_, _)
SumLen(f, S) ==
  IF S = {} THEN 0
  ELSE LET k == CHOOSE x \in S : TRUE IN Len(f[k]) + SumLen(f, S \ {k})

BusInit ==
  /\ bus = [listeners |-> [k \in IndexerEventType |-> <<>>], emits |-> 0,
            last |-> <<>>]
  /\ webhook = <<>>
  /\ useSupabase = FALSE /\ StoreEmpty /\ cachedState = <<>>
  /\ hist = <<>>
  /\ ScanIdle /\ MonitorIdle /\ LimiterIdle /\ RetryIdle /\ WatchIdle

BusFrame ==
  UNCHANGED <<storeVars, scanVars, monitor, limiterVars, retry, webhook,
              watchVars>>

\* on<Kind>(callback)
Bus_on(kind) ==
  \E l \in ListenerKinds :
    /\ SumLen(bus.listeners, IndexerEventType) < MaxListeners
    /\ bus' = [bus EXCEPT !.listeners[kind] = Append(@, l)]
    /\ BusFrame

\* the function on<Kind> returned is called
Bus_off(kind, i) ==
  /\ i \in 1..Len(bus.listeners[kind])
  /\ bus' = [bus EXCEPT !.listeners[kind] = Without(@, i)]
  /\ BusFrame

\* emit<Kind>(event), from the publisher's call to its return or throw
Bus_emit(kind) ==
  /\ bus.emits < MaxEmits
  /\ bus' = [bus EXCEPT
               !.emits = @ + 1,
               !.last = <<[kind |-> kind, listeners |-> bus.listeners[kind],
                           result |-> EventEmitter_emit(bus.listeners[kind],
                                                        kind)]>>]
  /\ BusFrame

BusNext ==
  \/ \E kind \in IndexerEventType : Bus_on(kind)
  \/ \E kind \in IndexerEventType, i \in 1..MaxListeners : Bus_off(kind, i)
  \/ \E kind \in IndexerEventType : Bus_emit(kind)

SpecBus == BusInit /\ [][BusNext]_vars

(***************************************************************************)
(* The indexing path and the webhook deliveries together.  WebhookManager  *)
(* subscribes one listener per event kind, (event) => this.handle*(event); *)
(* handle* is async, so the listener returns a promise to emit, which does *)
(* not wait for it.  handlers[1] is one handleLogs call; webhook is the    *)
(* list of sendWebhook calls started so far, one per notification (one     *)
(* webhook is registered for every event type).  The events carry a bigint *)
(* as the pipeline builds them; plain = TRUE is an embedding in which the  *)
(* body can be serialised (BigInt.prototype.toJSON defined), so that the   *)
(* requests are made and can fail.                                         *)
(***************************************************************************)
DispatchRetries == 1     \* config.retries of the registered webhook

\* a log starts at most two deliveries (discovered, indexed)
MaxDeliveries == 2 * MaxBatchLen

\* a mutant of ListenerCall: the listener runs the delivery's first attempt
\* in the caller and lets its exception out
ListenerCall_sync(data) ==
  IF JSON_stringify(data).throws THEN "throws" ELSE "returns"

\* what emit gets from the webhook listener: handle* is an async function,
\* whatever happens inside it settles the promise it returns
ListenerCall(data) == "returns"

\* the event as the webhook listener receives it
DispatchData(h, kind, id) ==
  IF h.plain THEN [schemaId |-> JsString(id)]
  ELSE IF kind = "schema:discovered" THEN SchemaDiscoveredEvent(id, id)
  ELSE SchemaEvent(id, id, "")

\* handle* -> triggerWebhooks -> sendWebhook up to its first await
NewDelivery(data) ==
  [cfg |-> [retries |-> DispatchRetries], data |-> data, pc |-> "try",
   attempt |-> 0, posts |-> <<>>, sleeps |-> <<>>]

\* emit<Kind>(event) as the publisher sees it, and the deliveries after it
Publish(h, kind, id) ==
  LET data == DispatchData(h, kind, id)
      r == EventEmitter_emit(<<ListenerCall(data)>>, kind)
  IN [threw |-> r.threw,
      h |-> [h EXCEPT !.emitted = Append(@, <<kind, id>>)],
      webhook |-> IF r.threw THEN webhook
                  ELSE Append(webhook, NewDelivery(data))]

\* handleLogs' catch block took the error of this log; the for loop goes on
LogFailed(h) == NextLogOf([h EXCEPT !.failed = @ \cup {h.i}])

DispatchInit ==
  /\ handlers \in {<<[logs |-> l, i |-> 0, pc |-> "pending", skipped |-> {},
                      indexed |-> {}, failed |-> {}, emitted |-> <<>>,
                      plain |-> p]>> : l \in LogBatches, p \in BOOLEAN}
  /\ webhook = <<>>
  /\ bus = <<>> /\ session = <<>> /\ remote = <<>>
  /\ useSupabase = FALSE /\ StoreEmpty /\ cachedState = <<>>
  /\ hist = <<>>
  /\ ScanIdle /\ MonitorIdle /\ LimiterIdle /\ RetryIdle

DispatchFrame ==
  UNCHANGED <<useSupabase, stateFile, dbSchemas, dbState, cachedState,
              reported, scanVars, monitor, limiterVars, retry, bus, session,
              remote>>

\* the for loop of handleLogs reaches a log: processEvent emits
\* schemaDiscovered and calls getSchema
Dispatch_processEvent ==
  LET h == handlers[1] IN
  /\ h.pc = "next"
  /\ LET p == Publish(h, "schema:discovered", h.logs[h.i]) IN
     /\ handlers' = <<IF p.threw THEN LogFailed(p.h)
                      ELSE [p.h EXCEPT !.pc = "getSchema"]>>
     /\ webhook' = p.webhook
  /\ UNCHANGED <<schemas, state>>
  /\ DispatchFrame

\* onLogs: handleLogs(logs)
Dispatch_handleLogs ==
  /\ handlers[1].pc = "pending"
  /\ handlers' = <<NextLogOf(handlers[1])>>
  /\ UNCHANGED <<schemas, state, webhook>>
  /\ DispatchFrame

\* getSchema returns
Dispatch_getSchema ==
  LET h == handlers[1] IN
  /\ h.pc = "getSchema"
  /\ handlers' = <<IF h.logs[h.i] \in StoredIds
                   THEN NextLogOf([h EXCEPT !.skipped = @ \cup {h.i}])
                   ELSE [h EXCEPT !.pc = "saveSchema"]>>
  /\ UNCHANGED <<schemas, state, webhook>>
  /\ DispatchFrame

\* getBlock, getTransaction and saveSchema return, then emitSchemaIndexed
Dispatch_saveSchema ==
  LET h == handlers[1] IN
  /\ h.pc = "saveSchema"
  /\ LET r == SchemaRepository_saveSchema(schemas, state,
                                          MinimalSchema(h.logs[h.i], h.logs[h.i]))
         p == Publish([h EXCEPT !.indexed = @ \cup {h.i}], "schema:indexed",
                      h.logs[h.i])
     IN /\ schemas' = r.schemas
        /\ state' = r.state
        /\ handlers' = <<IF p.threw THEN LogFailed(p.h) ELSE NextLogOf(p.h)>>
        /\ webhook' = p.webhook
  /\ DispatchFrame

DeliveryFrame == UNCHANGED <<schemas, state, handlers>> /\ DispatchFrame

\* sendWebhook k: the try block up to await fetch
Dispatch_try(k) ==
  /\ k \in 1..Len(webhook)
  /\ webhook[k].pc = "try"
  /\ webhook' = [webhook EXCEPT ![k] =
                   IF JSON_stringify(@.data).throws THEN WebhookAfterFailure(@)
                   ELSE [@ EXCEPT !.pc = "fetch"]]
  /\ DeliveryFrame

\* sendWebhook k: fetch settles
Dispatch_fetch(k) ==
  \E outcome \in {"2xx", "non2xx", "rejected"} :
    /\ k \in 1..Len(webhook)
    /\ webhook[k].pc = "fetch"
    /\ webhook' = [webhook EXCEPT ![k] =
                     IF outcome = "2xx"
                     THEN [@ EXCEPT !.pc = "delivered",
                                    !.posts = Append(@, outcome)]
                     ELSE WebhookAfterFailure(
                            [@ EXCEPT !.posts = Append(@, outcome)])]
    /\ DeliveryFrame

\* sendWebhook k: the backoff timer fires
Dispatch_sleep(k) ==
  /\ k \in 1..Len(webhook)
  /\ webhook[k].pc = "sleep"
  /\ webhook' = [webhook EXCEPT ![k] = [@ EXCEPT !.pc = "try",
                                                 !.attempt = @ + 1]]
  /\ DeliveryFrame

DispatchNext ==
  \/ Dispatch_handleLogs
  \/ Dispatch_processEvent
  \/ Dispatch_getSchema
  \/ Dispatch_saveSchema
  \/ \E k \in 1..MaxDeliveries : Dispatch_try(k)
  \/ \E k \in 1..MaxDeliveries : Dispatch_fetch(k)
  \/ \E k \in 1..MaxDeliveries : Dispatch_sleep(k)

SpecDispatch == DispatchInit /\ [][DispatchNext]_vars

(***************************************************************************)
(* Properties of the store (SpecStore).                                    *)
(***************************************************************************)
\* C7: after any sequence of saveSchema / saveSchemas calls from an empty
\* store, the totalSchemasIndexed that getState reports equals the number of
\* distinct record ids stored, on the JSON and on the Supabase backend (so a
\* save of an id that already exists, which adds no id, leaves it unchanged).
C7_TotalIndexedCountsDistinctIds ==
  reported # <<>> => reported[1].totalSchemasIndexed = Cardinality(StoredIds)

\* C8: a save over an existing id never replaces a non-empty schemaName or
\* schemaDefinition already stored by an empty one.
C8_NonEmptyNeverReplacedByEmpty ==
  [][\A id \in StoredIds :
       /\ StoredSchema(id).schemaName # "" => StoredSchema(id)'.schemaName # ""
       /\ StoredSchema(id).schemaDefinition # "" =>
            StoredSchema(id)'.schemaDefinition # ""]_vars

(***************************************************************************)
(* Properties of retryWithBackoff (SpecRetry).                             *)
(***************************************************************************)
RetrySettled == retry.pc \in {"returned", "thrown"}

\* DEFAULT_RETRY_CONFIG with maxRetries 3: the spec's example
ExampleConfig ==
  [maxRetries |-> 3, delayMs |-> 1000, backoffMultiplier |-> 2,
   maxDelayMs |-> 10000]

\* C10: for maxRetries >= 1 the operation is invoked at most maxRetries
\* times; a return follows the first success and nothing is invoked after
\* it; a throw happens only after maxRetries failed invocations, carries the
\* error of the last one and follows exactly maxRetries - 1 sleeps (none
\* after the final failure); with 3 / 1000 / 2 / 10000 the sleeps are 1000
\* then 2000.
C10_RetryAttemptsAndSleeps ==
  retry.cfg.maxRetries >= 1 =>
    /\ Len(retry.outcomes) <= retry.cfg.maxRetries
    /\ \A i \in 1..Len(retry.outcomes) - 1 : ~retry.outcomes[i]
    /\ retry.pc = "returned" =>
         /\ retry.outcomes[Len(retry.outcomes)]
         /\ retry.result = Len(retry.outcomes)
    /\ (Len(retry.outcomes) > 0 /\ retry.outcomes[Len(retry.outcomes)]) =>
         retry.pc = "returned"
    /\ retry.pc = "thrown" =>
         /\ Len(retry.outcomes) = retry.cfg.maxRetries
         /\ ~retry.outcomes[Len(retry.outcomes)]
         /\ retry.lastError = retry.cfg.maxRetries
         /\ Len(retry.sleeps) = retry.cfg.maxRetries - 1
    /\ RetrySettled => Len(retry.sleeps) = Len(retry.outcomes) - 1
    /\ (retry.pc = "thrown" /\ retry.cfg = ExampleConfig) =>
         retry.sleeps = <<1000, 2000>>

\* C10 witness: the example configuration has thrown after its third failure
C10_Witness ==
  /\ retry.cfg = ExampleConfig
  /\ retry.pc = "thrown"
  /\ retry.outcomes = <<FALSE, FALSE, FALSE>>
  /\ retry.sleeps = <<1000, 2000>>

(***************************************************************************)
(* Properties of RateLimiter (SpecLimiter).                                *)
(***************************************************************************)
\* the operations that have started and not yet settled
InFlight == {c \in Callers : caller[c].pc = "running"}

\* C9: for any number of concurrent callers the number of operations that
\* have started and not yet settled never exceeds maxConcurrent.
C9_InFlightBounded == Cardinality(InFlight) <= limiterCfg.maxConcurrent

(***************************************************************************)
(* Properties of HistoricalScanner.scan                                    *)
(***************************************************************************)
\* the windows [from_i, to_i] of [a, b]: from_1 = a,
\* to_i = min(from_i + batchSize - 1, b), from_(i+1) = to_i + 1
RECURSIVE WindowsOf(_, _, _)
WindowsOf(a, b, batchSize) ==
  IF a > b THEN <<>>
  ELSE <<<<a, Min(a + batchSize - 1, b)>>>> \o
       WindowsOf(Min(a + batchSize - 1, b) + 1, b, batchSize)

IsPrefix(p, q) == Len(p) <= Len(q) /\ \A i \in 1..Len(p) : p[i] = q[i]

\* C1: scan(a, b) with a <= b fetches exactly the windows of [a, b], in
\* order and nothing else, and when it has completed normally the persisted
\* lastScannedBlock is b.
C1_WindowsPartitionRange ==
  LET sl == scan[1] IN
  (sl.pc # "idle" /\ sl.endBlock # Omitted /\ sl.startBlock <= sl.endBlock) =>
    /\ IsPrefix(sl.fetched,
                WindowsOf(sl.startBlock, sl.endBlock, config.batchSize))
    /\ sl.pc = "done" =>
         /\ sl.fetched = WindowsOf(sl.startBlock, sl.endBlock, config.batchSize)
         /\ PersistedHeight = sl.endBlock

C5_FailedWindowStopsScan ==
  LET sl == scan[1] IN
  (sl.pc = "rejected" /\ sl.error \in {"getLogs", "saveSchemas"}) =>
    /\ Len(sl.fetched) = Len(sl.issued) + 1
    /\ \A i \in 1..Len(sl.issued) : sl.issued[i] = sl.fetched[i][2]
    /\ (writes = {} /\ sl.call = 1) =>
         PersistedHeight = IF sl.issued = <<>> THEN 0
                           ELSE sl.issued[Len(sl.issued)]

\* C6: a checkpoint write that failed stops its scan (no later window is
\* fetched, the scan does not complete normally), and the backend applies
\* the checkpoint writes in the order they were issued.
C6_CheckpointFailurePropagates ==
  /\ [](\A t \in hist.failed : \A s \in Slots :
          scan[s].call = t.call =>
            /\ Len(scan[s].fetched) <= t.n
            /\ scan[s].pc # "done")
  /\ [][\A w \in writes \ writes' :
          w.stage = "update" =>
            \A u \in writes' : ~IssuedBefore(u.tag, w.tag)]_vars

(***************************************************************************)
(* Properties of the running orchestrator                                  *)
(***************************************************************************)
\* C2: no step of the running orchestrator lowers the persisted
\* lastScannedBlock.
C2_CheckpointNeverDecreases == [][PersistedHeight' >= PersistedHeight]_vars

\* C3: once a scanner window has saved an event id and processEvent has
\* finished with the same id, the store holds the record of that id and
\* totalSchemasIndexed counts every stored id exactly once.
C3_OneRecordCountedOnce ==
  \A id \in hist.saved \cap monitor.done :
    /\ id \in StoredIds
    /\ TotalIndexed = Cardinality(StoredIds)

(***************************************************************************)
(* Properties of the retry delays                                          *)
(***************************************************************************)
\* C11: the sleeps of one retryWithBackoff call are non-decreasing, and the
\* sleep after the k-th failed attempt, the first included, is
\* min(delayMs * backoffMultiplier^(k-1), maxDelayMs), so at most maxDelayMs.
C11_DelaysCappedAndMonotone ==
  /\ \A k \in 1..Len(retry.sleeps) :
       /\ retry.sleeps[k] <= retry.cfg.maxDelayMs
       /\ retry.sleeps[k] = Min(retry.cfg.delayMs *
                                  Pow(retry.cfg.backoffMultiplier, k - 1),
                                retry.cfg.maxDelayMs)
  /\ \A k \in 2..Len(retry.sleeps) : retry.sleeps[k - 1] <= retry.sleeps[k]

(***************************************************************************)
(* Properties of the webhook dispatcher                                    *)
(***************************************************************************)
\* C12: sendWebhook gives up on a published event only after it has made
\* every attempt of the budget as an HTTP POST that the endpoint did not
\* accept, and it reports delivery only after a POST the endpoint accepted.
C12_PublishedEventIsPosted ==
  webhook.data \in PublishedEvents =>
    /\ webhook.pc = "failed" =>
         /\ Len(webhook.posts) = WebhookMaxRetries(webhook.cfg) + 1
         /\ \A i \in 1..Len(webhook.posts) : webhook.posts[i] # "2xx"
    /\ webhook.pc = "delivered" =>
         webhook.posts[Len(webhook.posts)] = "2xx"

(***************************************************************************)
(* Properties of RealtimeMonitor's connection life cycle                   *)
(***************************************************************************)
\* C13: once stop() has returned (and start() has not been called again) no
\* watcher is subscribed and no reconnect timer is pending, and a further
\* stop() changes none of the monitor's fields, watchers or timers.
C13_StopLeavesNothingBehind ==
  /\ [](session.stopped => session.watchers = {} /\ session.timers = {})
  /\ [][(session.stopped /\ session'.stops = session.stops + 1) =>
          session' = [session EXCEPT !.stops = @ + 1]]_vars

\* C14: since start(), the k-th reconnect is scheduled with delay
\* reconnectDelay * k and at most maxReconnectAttempts are scheduled.
C14_LinearBoundedReconnects ==
  /\ Len(session.scheduled) <= session.cfg.maxReconnectAttempts
  /\ \A k \in 1..Len(session.scheduled) :
       session.scheduled[k] = session.cfg.reconnectDelay * k

(***************************************************************************)
(* Properties of RealtimeMonitor.handleLogs                                *)
(***************************************************************************)
\* the deliveries and positions at which a log with this id arrived
Arrivals(id) ==
  {<<b, i>> \in Polls \X (1..MaxBatchLen) :
     i <= Len(handlers[b].logs) /\ handlers[b].logs[i] = id}

ArrivedIds == {id \in Ids : Arrivals(id) # {}}

HandlersDone ==
  \A b \in Polls : handlers[b].pc = "done" /\ handlers[b].failed = {}

\* C15: when every delivered log has been handled without a storage or
\* fetch error, each id that arrived is stored, exactly one of its logs was
\* saved and announced as new, every other log with that id was skipped as
\* already stored, and totalIndexed is the number of ids that arrived.
C15_DuplicateLogSkipped ==
  HandlersDone =>
    /\ StoredIds = ArrivedIds
    /\ \A id \in ArrivedIds :
         /\ Cardinality({a \in Arrivals(id) :
                           a[2] \in handlers[a[1]].indexed}) = 1
         /\ \A a \in Arrivals(id) :
              a[2] \in handlers[a[1]].indexed \cup handlers[a[1]].skipped
    /\ TotalIndexed = Cardinality(ArrivedIds)

(***************************************************************************)
(* Properties of the end of a scan                                         *)
(***************************************************************************)
\* C16: a scan called with an end height fetches and checkpoints no height
\* above it; a scan called without one fetches the windows up to the height
\* it read, and once it has read the height it never changes it.
C16_EndOfScanFixed ==
  /\ [](LET sl == scan[1] IN
        /\ (sl.pc # "idle" /\ sl.endBlock # Omitted) =>
             /\ \A i \in 1..Len(sl.fetched) : sl.fetched[i][2] <= sl.endBlock
             /\ \A i \in 1..Len(sl.issued) : sl.issued[i] <= sl.endBlock
        /\ (sl.endBlock = Omitted /\ sl.fetched # <<>>) =>
             IsPrefix(sl.fetched,
                      WindowsOf(sl.startBlock, sl.currentBlock,
                                config.batchSize)))
  /\ [][(/\ scan[1].endBlock = Omitted
         /\ scan[1].pc \notin {"idle", "height", "done", "rejected"}
         /\ scan'[1].call = scan[1].call)
        => scan'[1].currentBlock = scan[1].currentBlock]_vars

(***************************************************************************)
(* Properties of the event bus                                             *)
(***************************************************************************)
\* C17: an emit* call never throws into the publisher, with or without
\* listeners for the kind and whether or not a listener throws, and it
\* calls every listener of the kind.
C17_PublishNeverThrows ==
  bus.last # <<>> =>
    /\ ~bus.last[1].result.threw
    /\ bus.last[1].result.notified = Len(bus.last[1].listeners)

(***************************************************************************)
(* Properties of the remote calls                                          *)
(***************************************************************************)
\* C18: there is one rate limiter through which every remote call in flight
\* was made, whichever component made it, and the number of calls in flight
\* is at most that limiter's maxConcurrent.
C18_OneSharedLimiter ==
  \E l \in DOMAIN RateLimiters :
    /\ \A t \in InFlightCalls : remote[t][1].via = l
    /\ Cardinality(InFlightCalls) <= RateLimiters[l].maxConcurrent

(***************************************************************************)
(* Properties of RateLimiter's queue and spacing                           *)
(***************************************************************************)
\* C19: the wait queue is served from its head (a caller leaves the queue
\* only as its first element), and when a caller's operation starts no
\* caller that was already in the queue when it called execute is still
\* waiting there.
C19_QueueIsFifo ==
  /\ [][queue' # queue =>
          \/ queue # <<>> /\ queue' = Tail(queue)
          \/ \E c \in Callers : queue' = Append(queue, c)]_vars
  /\ [][\A c \in Callers :
          (caller[c].pc # "running" /\ caller'[c].pc = "running") =>
            caller[c].ahead \cap Queued = {}]_vars

\* C20: the last operations of two callers of one limiter started at least
\* minDelayMs apart.
C20_StartsSpaced ==
  \A c \in Callers, d \in Callers :
    (c # d /\ caller[c].startedAt >= 0 /\ caller[d].startedAt >= 0) =>
      \/ caller[c].startedAt - caller[d].startedAt >= limiterCfg.minDelayMs
      \/ caller[d].startedAt - caller[c].startedAt >= limiterCfg.minDelayMs

(***************************************************************************)
(* Properties of sendWebhook's retry budget                                *)
(***************************************************************************)
\* C21: sendWebhook makes at most the first request plus config.retries
\* further ones (none when config.retries is 0), and no request after one
\* that was answered 2xx.
C21_AttemptsWithinBudget ==
  /\ Len(webhook.posts) <= webhook.cfg.retries + 1
  /\ \A i \in 1..(Len(webhook.posts) - 1) : webhook.posts[i] # "2xx"

(***************************************************************************)
(* Properties of the indexing path beside the webhook deliveries           *)
(***************************************************************************)
\* the notifications handleLogs emits for its logs when nothing fails:
\* discovered for every log, indexed for the first log of each id
RECURSIVE ExpectedEmitted(_, _)
ExpectedEmitted(logs, seen) ==
  IF logs = <<>> THEN <<>>
  ELSE LET id == Head(logs) IN
       (IF id \in seen THEN <<<<"schema:discovered", id>>>>
        ELSE <<<<"schema:discovered", id>>, <<"schema:indexed", id>>>>)
       \o ExpectedEmitted(Tail(logs), seen \cup {id})

DeliveryUnfinished(w) == w.pc \in {"try", "fetch", "sleep"}

\* C22: whatever the deliveries do (requests refused or rejected, retries
\* exhausted, still backing off), no log fails, the handler's next step
\* never has to wait for a delivery, every notification starts its own
\* delivery at once, and when handleLogs has returned every log's record is
\* stored and every notification was emitted.
C22_DeliveryFailureIsolated ==
  LET h == handlers[1] IN
  /\ h.failed = {}
  /\ h.pc = "next" => ENABLED Dispatch_processEvent
  /\ h.pc = "getSchema" => ENABLED Dispatch_getSchema
  /\ h.pc = "saveSchema" => ENABLED Dispatch_saveSchema
  /\ Len(webhook) = Len(h.emitted)
  /\ h.pc = "done" =>
       /\ StoredIds = {h.logs[i] : i \in 1..Len(h.logs)}
       /\ h.emitted = ExpectedEmitted(h.logs, {})

\* handleLogs has returned with its records stored while one delivery was
\* given up after its requests failed and another is still under way
C22_Witness ==
  /\ handlers[1].pc = "done"
  /\ handlers[1].indexed # {}
  /\ \E k \in 1..Len(webhook) :
       /\ webhook[k].pc = "failed"
       /\ \E i \in 1..Len(webhook[k].posts) : webhook[k].posts[i] = "non2xx"
       /\ \E i \in 1..Len(webhook[k].posts) : webhook[k].posts[i] = "rejected"
  /\ \E k \in 1..Len(webhook) : DeliveryUnfinished(webhook[k])

(***************************************************************************)
(* Properties of the shutdown                                              *)
(***************************************************************************)
\* C23: when the process has exited on a shutdown signal no scan is between
\* the fetch of a window's logs and the write of that window's checkpoint:
\* no window is being fetched or saved and no checkpoint write is pending.
C23_NoExitInsideWindow ==
  process = "exited" =>
    /\ \A s \in Slots : scan[s].pc \notin {"fetch", "save"}
    /\ writes = {}

(***************************************************************************)
(* Properties of the notifications                                         *)
(***************************************************************************)
\* C24: every record in the store, whether the scanner or the monitor
\* wrote it, has been announced on the event bus.
C24_StoredIsNotified == StoredIds \subseteq monitor.indexed

\* the events getLogs returned for window w of a scan
FoundIn(sl, w) == {i \in sl.found : w[1] <= i /\ i <= w[2]}

RECURSIVE SilentWhenStored(_, _)
SilentWhenStored(logs, seen) ==
  IF logs = <<>> THEN <<>>
  ELSE LET id == Head(logs) IN
       (IF id \in seen THEN <<>>
        ELSE <<<<"schema:discovered", id>>, <<"schema:indexed", id>>>>)
       \o SilentWhenStored(Tail(logs), seen \cup {id})

\* C26: for each log, a record that is already stored means no notification
\* and no write; otherwise discovered is emitted, the minimal record is
\* saved, and indexed is emitted after the save.  Starting from an empty
\* store the notifications of a batch are then exactly those of the first
\* log of each id, and indexed is emitted only for stored records.
C26_StoredLogIsSilent ==
  LET h == handlers[1] IN
  /\ IsPrefix(h.emitted, SilentWhenStored(h.logs, {}))
  /\ \A k \in 1..Len(h.emitted) :
       h.emitted[k][1] = "schema:indexed" => h.emitted[k][2] \in StoredIds

(***************************************************************************)
(* Properties of the error paths of the monitor                            *)
(***************************************************************************)
\* C27: whoever is subscribed to the event bus, a log of a batch that fails
\* does not end the batch: when handleLogs has ended, by returning or by
\* an exception, every log of the batch was indexed, skipped or reported as
\* failed.
C27_FailedLogDoesNotEndBatch ==
  \A b \in Polls :
    LET h == handlers[b] IN
    h.pc \in {"done", "rejected"} =>
      h.indexed \cup h.skipped \cup h.failed = 1..Len(h.logs)

\* C28: whoever is subscribed to the event bus, while the monitor is
\* running and has attempts left an error of a poll whose message has
\* "connection" or "network" in it schedules a reconnect, and an error with
\* an empty message or without these words leaves the monitor as it was.
C28_ConnectivityErrorReconnects ==
  [][session'.pollErrors = session.pollErrors + 1 =>
       /\ (/\ session'.lastPoll = "connectivity"
           /\ session.isRunning
           /\ session.reconnectAttempts < session.cfg.maxReconnectAttempts)
          => /\ Len(session'.scheduled) = Len(session.scheduled) + 1
             /\ session'.reconnectTimer \in session'.timers \ session.timers
       /\ session'.lastPoll \in {"empty", "other"} =>
            session' = [session EXCEPT !.pollErrors = @ + 1,
                                       !.lastPoll = session'.lastPoll]]_vars

(***************************************************************************)
(* Properties of the start of a backfill (SpecRuns)                        *)
(***************************************************************************)
\* the windows whose checkpoint was issued, over the runs so far
CompletedWindows ==
  hist.covered \o SubSeq(scan[1].fetched, 1, Len(scan[1].issued))

\* C29: a run that finds no progress starts at START_BLOCK and every later
\* run starts one above the end of the last completed window, so each
\* height from START_BLOCK to that end lies in exactly one completed window.
C29_RunsCoverEveryHeightOnce ==
  /\ scan[1].pc # "idle" =>
       scan[1].startBlock =
         IF hist.covered = <<>> THEN config.startBlock
         ELSE hist.covered[Len(hist.covered)][2] + 1
  /\ CompletedWindows # <<>> =>
       \A h \in config.startBlock..CompletedWindows[Len(CompletedWindows)][2] :
         Cardinality({n \in 1..Len(CompletedWindows) :
                        /\ CompletedWindows[n][1] <= h
                        /\ h <= CompletedWindows[n][2]}) = 1

(***************************************************************************)
(* Properties of the stored record's origin fields (SpecStore)             *)
(***************************************************************************)
\* the parent of a record, 0 when it has none
ParentOf(schema) ==
  IF "parentSchemaId" \in DOMAIN schema THEN schema.parentSchemaId ELSE 0

\* C30: a save over an existing id leaves the record's origin fields (the
\* block number stands for publisher, block number, timestamp and origin
\* transaction, which are written together) as they were, and a parent that
\* is set is neither changed nor removed.
C30_OriginFieldsImmutable ==
  [][\A id \in StoredIds :
       /\ StoredSchema(id)'.blockNumber = StoredSchema(id).blockNumber
       /\ ParentOf(StoredSchema(id)) # 0 =>
            ParentOf(StoredSchema(id)') = ParentOf(StoredSchema(id))]_vars

(***************************************************************************)
(* Properties of the set of stored ids (SpecStore)                         *)
(***************************************************************************)
\* C31: no store operation removes a record: every id stored before a step
\* is stored after it.
C31_StoredIdsOnlyGrow == [][StoredIds \subseteq StoredIds']_vars

\* two ids are stored and a further operation has run on the store
C31_Witness == Cardinality(StoredIds) = MaxIds /\ hist.ops = MaxStoreOps

(***************************************************************************)
(* Properties of enrichment (SpecStore)                                    *)
(***************************************************************************)
\* C32: no record that enrichment has saved is stored as its own parent,
\* whatever the registry reported as its parent.
C32_NoSelfParent ==
  \A id \in hist.enriched \cap StoredIds : ParentOf(StoredSchema(id)) # id

C34_SkippedEventPickedUp ==
  /\ scan[1].pc # "idle" =>
       \A id \in hist.missed \ StoredIds : scan[1].startBlock <= id
  /\ (scan[1].pc = "done" /\ scan[1].skipped = {} /\ writes = {}) =>
       hist.missed \subseteq StoredIds

(***************************************************************************)
(* Properties of retryWithBackoff for every maxRetries (SpecRetry)         *)
(***************************************************************************)
\* C35: for every configuration, maxRetries 0 included, retryWithBackoff
\* has invoked the operation at least once when it settles, and what it
\* throws is the error of its last invocation, never undefined (0).
C35_InvokedOnceErrorDefined ==
  /\ RetrySettled => Len(retry.outcomes) >= 1
  /\ retry.pc = "thrown" =>
       /\ retry.lastError # 0
       /\ retry.lastError = Len(retry.outcomes)

(***************************************************************************)
(* Properties of RateLimiter.execute when the operation throws             *)
(***************************************************************************)
\* C36: when the operation of a caller throws, the in-flight counter goes
\* down by exactly the one that its start added and stays at or above 0,
\* the caller's execute ends with the throw, and when callers are waiting
\* the first of them is released.
C36_ThrowReleasesSlotOnce ==
  [][\A c \in Callers :
       (caller[c].pc = "running" /\ caller'[c].pc = "idle"
          /\ caller'[c].outcome = "threw") =>
         /\ running' = running - 1
         /\ running' >= 0
         /\ queue # <<>> =>
              /\ queue' = Tail(queue)
              /\ caller'[Head(queue)].pc = "released"]_vars

\* ---------------------------------------------------------------------
\* The limiter under fair scheduling

\* an execute call whose spacing sleep, if it has one, ends within the
\* modelled time
Limiter_executeInTime(c) ==
  /\ Limiter_execute(c)
  /\ caller'[c].wakeAt <= limiterCfg.minDelayMs + MaxTime

FairLimiterNext ==
  \/ \E c \in Callers : Limiter_executeInTime(c)
  \/ \E c \in Callers : Limiter_wake(c)
  \/ \E c \in Callers : Limiter_start(c)
  \/ \E c \in Callers : Limiter_settle(c)
  \/ Limiter_tick

\* a resolved await resumes, a timer that is due fires, every started
\* operation settles, and time passes
FairSpecLimiter ==
  /\ LimiterInit
  /\ [][FairLimiterNext]_vars
  /\ \A c \in Callers : WF_vars(Limiter_wake(c))
  /\ \A c \in Callers : WF_vars(Limiter_start(c))
  /\ \A c \in Callers : WF_vars(Limiter_settle(c))
  /\ SF_vars(Limiter_tick)

\* C37: every caller of execute eventually starts its operation: a caller
\* in its spacing sleep, in the wait queue, or past waitForSlot is later
\* running
C37_EveryCallerStarts ==
  \A c \in Callers :
    (caller[c].pc \in {"sleeping", "queued", "admitted", "released"})
      ~> (caller[c].pc = "running")

\* a caller waited in the queue behind a full limiter and was released by
\* processQueue while another caller still waits
C37_Witness ==
  \E c \in Callers : caller[c].pc = "released" /\ queue # <<>>

(***************************************************************************)
(* The number of windows of a scan                                         *)
(***************************************************************************)
\* the smallest integer that is at least n / d
CeilDiv(n, d) == (n + d - 1) \div d

\* C38: a scan(a, b) that has completed normally has fetched exactly
\* ceil((b - a + 1) / batchSize) windows when a <= b; when a > b it has
\* fetched no window, saved nothing and issued no checkpoint.
C38_WindowCount ==
  LET sl == scan[1] IN
  (sl.pc = "done" /\ sl.endBlock # Omitted) =>
    IF sl.startBlock <= sl.endBlock
    THEN Len(sl.fetched) =
           CeilDiv(sl.endBlock - sl.startBlock + 1, config.batchSize)
    ELSE sl.fetched = <<>> /\ sl.issued = <<>> /\ sl.saved = {}

(***************************************************************************)
(* What a running RealtimeMonitor holds                                    *)
(***************************************************************************)
\* C39: whenever the monitor reports isRunning and isHealthy() it has a
\* subscribed poll watcher or a pending reconnect timer.
C39_HealthyMeansWatching ==
  (session.isRunning /\ RealtimeMonitor_isHealthy(session)) =>
    (session.watchers # {} \/ session.timers # {})

\* C40: at any time at most one poll watcher is subscribed and at most one
\* reconnect timer is pending.
C40_OneWatcherOneTimer ==
  /\ Cardinality(session.watchers) <= 1
  /\ Cardinality(session.timers) <= 1


====
